---- MODULE Spec2Model ----
(***************************************************************************)
(* Credential store, photo list cache, gallery loader and upload flow of   *)
(* the Cloudinary image manager, as state machines over the two key-value  *)
(* backends (AsyncStorage, SecureStore), the wall clock and the network.   *)
(***************************************************************************)
EXTENDS Integers, Sequences, FiniteSets, TLC

VARIABLES
    asyncStorage,          \* AsyncStorage: key -> stored string
    secureStore,           \* SecureStore: key -> stored string
    secureStoreAvailable,  \* storage.ts module variable: "null" | "true" | "false"
    secureEnv,             \* what SecureStore.isAvailableAsync() does on this platform
    now,                   \* Date.now()
    ticks,                 \* number of clock advances so far
    photos,                \* PhotosScreen state: photos
    loading,               \* PhotosScreen state: loading
    refreshing,            \* PhotosScreen state: refreshing
    loads,                 \* one record per loadPhotos invocation
    calls,                 \* the photo cache calls made so far, in order
    cred,                  \* the credential store calls made so far, in order
    up,                    \* UploadScreen state and its handleUpload runs
    st,                    \* SettingsScreen state and its handler in progress
    mounted,               \* whether PhotosScreen is still mounted
    gw                     \* the getPhotosFromFolder call of the gateway

storeVars == <<asyncStorage, secureStore, secureStoreAvailable, secureEnv>>
clockVars == <<now, ticks>>
screenVars == <<photos, loading, refreshing, loads>>
otherVars == <<calls, cred, up, st, mounted, gw>>
vars == <<asyncStorage, secureStore, secureStoreAvailable, secureEnv, now, ticks,
          photos, loading, refreshing, loads, calls, cred, up, st, mounted, gw>>

(***************************************************************************)
(* Bounds of the model.                                                    *)
(***************************************************************************)
MaxLoads == 2
MaxTicks == 1
MaxCacheCalls == 3
MaxCacheTicks == 2
MaxCredCalls == 3
MaxUploads == 2
MaxUploadOps == 4

(***************************************************************************)
(* Strings, stored texts and JSON.                                         *)
(***************************************************************************)
Undefined == "<undefined>"
Null == [t |-> "null"]
Str(s) == [t |-> "str", s |-> s]

StartsWith(s, p) == Len(s) >= Len(p) /\ SubSeq(s, 1, Len(p)) = p

\* JSON.stringify of an object of strings: the keys whose value is undefined
\* are left out.
StringifyObject(obj) == [k \in {x \in DOMAIN obj : obj[x] # Undefined} |-> obj[k]]
JSONStringify(obj) == [t |-> "json", v |-> StringifyObject(obj)]

\* JSON.parse succeeds on the texts JSON.stringify wrote and throws on the others.
JSONParses(text) == text.t = "json"
JSONParse(text) == text.v

\* o.k of a parsed object: undefined when the key is missing.
Field(o, k) == IF k \in DOMAIN o THEN o[k] ELSE Undefined

\* JavaScript truthiness of a string | null | undefined value.
TruthyString(s) == s # Undefined /\ s # ""
TruthyText(text) == text.t # "null" /\ ~(text.t = "str" /\ text.s = "")

\* AsyncStorage / SecureStore primitives on a key -> text map.
GetItem(m, k) == IF k \in DOMAIN m THEN m[k] ELSE Null
SetItem(m, k, v) == [x \in DOMAIN m \cup {k} |-> IF x = k THEN v ELSE m[x]]
MultiRemove(m, ks) == [x \in DOMAIN m \ ks |-> m[x]]
PlainString(text) == IF text.t = "str" THEN text.s ELSE Undefined

(***************************************************************************)
(* utils/storage.ts                                                        *)
(***************************************************************************)
CLOUDINARY_CREDENTIALS_KEY == "@cloudinary_credentials"
API_KEY_KEY == "cloudinary_api_key"
API_SECRET_KEY == "cloudinary_api_secret"
FALLBACK_API_KEY_KEY == "@cloudinary_api_key"
FALLBACK_API_SECRET_KEY == "@cloudinary_api_secret"

FallbackKeys == {FALLBACK_API_KEY_KEY, FALLBACK_API_SECRET_KEY}

\* A mutant of ProbeResult: a probe that throws is taken as "available".
ProbeResultThrowAvailable(env) == IF env = "unavailable" THEN "false" ELSE "true"

\* The value isSecureStoreAvailable assigns after the probe: the probe's answer,
\* or false when the probe throws.
ProbeResult(env) == IF env = "available" THEN "true" ELSE "false"

\* The step after the backend choice of a call.
AfterProbe(op, use) ==
    IF op = "get" THEN (IF use = "true" THEN "readKey" ELSE "multiGet")
    ELSE IF op = "save" THEN (IF use = "true" THEN "writeKey" ELSE "multiSet")
    ELSE (IF use = "true" THEN "deleteKey" ELSE "multiRemove")

\* What a call of getCloudinaryApiCredentials waits for first: the probe when
\* the flag is null, else the first read of the backend the flag names.
FirstWait(flag) == IF flag = "null" THEN "probing" ELSE AfterProbe("get", flag)

\* getCloudinaryCredentials
GetCloudinaryCredentials(store) ==
    LET data == GetItem(store, CLOUDINARY_CREDENTIALS_KEY)
    IN  IF TruthyText(data) /\ JSONParses(data) THEN JSONParse(data) ELSE Null

\* A mutant of ApiCredentialsOf: the pair is returned when either value is there.
ApiCredentialsOfEither(apiKey, apiSecret) ==
    IF TruthyString(apiKey) \/ TruthyString(apiSecret)
    THEN [apiKey |-> apiKey, apiSecret |-> apiSecret]
    ELSE Null

\* The result of getCloudinaryApiCredentials from the two values it read.
ApiCredentialsOf(apiKey, apiSecret) ==
    IF TruthyString(apiKey) /\ TruthyString(apiSecret)
    THEN [apiKey |-> apiKey, apiSecret |-> apiSecret]
    ELSE Null

\* The pair the last read of getCloudinaryApiCredentials gives: the key read
\* before and the secret read now, or the two values of the one multiGet.
LastRead(wait, apiKey, astore, sstore) ==
    IF wait = "readSecret"
    THEN ApiCredentialsOf(apiKey, PlainString(GetItem(sstore, API_SECRET_KEY)))
    ELSE ApiCredentialsOf(PlainString(GetItem(astore, FALLBACK_API_KEY_KEY)),
                          PlainString(GetItem(astore, FALLBACK_API_SECRET_KEY)))

\* getCloudinaryApiCredentials with no failing read, given the backend choice.
GetCloudinaryApiCredentials(useSecureStore, astore, sstore) ==
    IF useSecureStore = "true"
    THEN ApiCredentialsOf(PlainString(GetItem(sstore, API_KEY_KEY)),
                          PlainString(GetItem(sstore, API_SECRET_KEY)))
    ELSE ApiCredentialsOf(PlainString(GetItem(astore, FALLBACK_API_KEY_KEY)),
                          PlainString(GetItem(astore, FALLBACK_API_SECRET_KEY)))

(***************************************************************************)
(* utils/photoCache.ts                                                     *)
(***************************************************************************)
PHOTO_CACHE_KEY == "photo_cache"
CACHE_EXPIRY_MS == 5 * 60 * 1000

CacheKey(folder) == PHOTO_CACHE_KEY \o "_" \o folder

\* A mutant of CacheIsValid: the boundary age counts as fresh.
CacheIsValidInclusive(data, folder, t) ==
    t - data.timestamp <= CACHE_EXPIRY_MS /\ data.folder = folder

\* The validity test of getCachedPhotos.
CacheIsValid(data, folder, t) ==
    t - data.timestamp < CACHE_EXPIRY_MS /\ data.folder = folder

\* A mutant of GetCachedPhotos: the lookup takes any entry of the cache
\* namespace and tests its age alone.
GetCachedPhotosAnyFolder(store, folder, t) ==
    LET ks == {k \in DOMAIN store : StartsWith(k, PHOTO_CACHE_KEY)
                   /\ store[k].t = "json"
                   /\ t - store[k].v.timestamp < CACHE_EXPIRY_MS}
    IN  IF ks # {}
        THEN [hit |-> TRUE, photos |-> store[CHOOSE k \in ks : TRUE].v.photos]
        ELSE [hit |-> FALSE, photos |-> <<>>]

\* getCachedPhotos: [hit |-> TRUE, photos |-> ...] or the null result.
NoPhotos == [hit |-> FALSE, photos |-> <<>>]
GetCachedPhotos(store, folder, t) ==
    LET cached == GetItem(store, CacheKey(folder))
    IN  IF TruthyText(cached) /\ JSONParses(cached)
           /\ CacheIsValid(JSONParse(cached), folder, t)
        THEN [hit |-> TRUE, photos |-> JSONParse(cached).photos]
        ELSE NoPhotos

\* JSON.stringify of a CachedPhotos value: every photo of the array is written
\* as an object, the timestamp as a number, the folder as a string.
StringifyCachedPhotos(data) ==
    [t |-> "json",
     v |-> [photos |-> [i \in DOMAIN data.photos |-> StringifyObject(data.photos[i])],
            timestamp |-> data.timestamp,
            folder |-> data.folder]]

\* A mutant of CachePhotos: an entry that exists is not overwritten.
CachePhotosKeepExisting(store, ps, folder, t) ==
    IF CacheKey(folder) \in DOMAIN store THEN store
    ELSE SetItem(store, CacheKey(folder),
                 StringifyCachedPhotos([photos |-> ps, timestamp |-> t,
                                        folder |-> folder]))

\* A mutant of CachePhotos: the entry is written for the folder configured at
\* the time of the write, not for the folder the caller passes.
CachePhotosConfiguredFolder(store, ps, folder, t) ==
    LET configured == Field(GetCloudinaryCredentials(store), "folder")
        f == IF TruthyString(configured) THEN configured ELSE "Modeling"
    IN  SetItem(store, CacheKey(f),
                StringifyCachedPhotos([photos |-> ps, timestamp |-> t, folder |-> f]))

\* cachePhotos: the storage after the write of an entry stamped t.
CachePhotos(store, ps, folder, t) ==
    SetItem(store, CacheKey(folder),
            StringifyCachedPhotos([photos |-> ps, timestamp |-> t, folder |-> folder]))

\* clearPhotoCache without a folder: the keys picked from getAllKeys.
CacheKeysOf(store) == {k \in DOMAIN store : StartsWith(k, PHOTO_CACHE_KEY)}

(***************************************************************************)
(* JavaScript strings the code takes apart: a text is the sequence of its  *)
(* UTF-16 code units.                                                      *)
(***************************************************************************)
\* The printable ASCII characters but the grave accent: U+0020 to U+005F and
\* U+0061 to U+007E, in order.
AsciiUpper == " !\"#$%&'()*+,-./0123456789:;<=>?@ABCDEFGHIJKLMNOPQRSTUVWXYZ[\\]^_"
AsciiLower == "abcdefghijklmnopqrstuvwxyz{|}~"

\* The code units of a text of these characters.
Units(str) ==
    [i \in 1..Len(str) |->
       LET c == SubSeq(str, i, i)
           upper == {k \in 1..Len(AsciiUpper) : SubSeq(AsciiUpper, k, k) = c}
       IN  IF upper # {} THEN 31 + CHOOSE k \in upper : TRUE
           ELSE 96 + CHOOSE k \in 1..Len(AsciiLower) : SubSeq(AsciiLower, k, k) = c]

\* text.split(','): U+002C is the separator.
RECURSIVE SplitAcc(_, _, _)
SplitAcc(s, i, cur) ==
    IF i > Len(s) THEN <<cur>>
    ELSE IF s[i] = 44 THEN <<cur>> \o SplitAcc(s, i + 1, <<>>)
    ELSE SplitAcc(s, i + 1, Append(cur, s[i]))

\* The code units String.prototype.trim removes: the WhiteSpace and
\* LineTerminator productions of ECMAScript (tab, line feed, vertical tab,
\* form feed, carriage return, space, no-break space, U+1680, U+2000 to
\* U+200A, U+2028, U+2029, U+202F, U+205F, U+3000, U+FEFF).
WhiteSpace ==
    {9, 10, 11, 12, 13, 32, 160, 5760, 8232, 8233, 8239, 8287, 12288, 65279}
    \cup (8192..8202)

\* tag.trim(): what lies between the first and the last code unit that is
\* not white space.
Trim(s) ==
    LET kept == {k \in DOMAIN s : s[k] \notin WhiteSpace}
    IN  IF kept = {} THEN <<>>
        ELSE SubSeq(s, CHOOSE k \in kept : \A j \in kept : k <= j,
                       CHOOSE k \in kept : \A j \in kept : j <= k)

\* tags.split(',').map((tag) => tag.trim()).filter((tag) => tag.length > 0)
TagsArray(tags) ==
    LET parts == SplitAcc(tags, 1, <<>>)
    IN  SelectSeq([i \in DOMAIN parts |-> Trim(parts[i])], LAMBDA tag : Len(tag) > 0)

(***************************************************************************)
(* app/(tabs)/upload.tsx: UploadScreen                                     *)
(***************************************************************************)
\* A mutant of MetadataWanted: the tag list is not looked at.
MetadataWantedDescriptionOnly(description, tagsArray, publicId) ==
    TruthyString(description) /\ TruthyString(publicId)

\* (description || tagsArray.length > 0) && uploadResult.public_id
MetadataWanted(description, tagsArray, publicId) ==
    (TruthyString(description) \/ Len(tagsArray) > 0) /\ TruthyString(publicId)

\* The screen as useState leaves it: selectedImage (TRUE for an image),
\* description, tags, uploading, hasCredentials; the toast shown last, the
\* number of error toasts, of "No credentials" alerts and of router.push calls
\* to the gallery; the position of the mount effect's checkCredentials
\* (mount), the pickImage runs that wait for the permission answer
\* (permissions) and for the picker (pickers), the handleUpload runs (runs);
\* ops counts the presses and the edits of the user.
IdleUpload ==
    [mount |-> "none", selectedImage |-> FALSE, description |-> "", tags |-> <<>>,
     uploading |-> FALSE, hasCredentials |-> FALSE,
     toast |-> [kind |-> "none", message |-> ""], errorToasts |-> 0,
     alerts |-> 0, navigations |-> 0, permissions |-> 0, pickers |-> 0,
     runs |-> <<>>, ops |-> 0]

\* A handleUpload run that has passed the selected-image test and waits for
\* getCloudinaryCredentials, with the description and the tags of the render
\* it was pressed in.
NewUploadRun(u) ==
    [pc |-> "creds", exit |-> "none", description |-> u.description,
     tags |-> u.tags, tagsArray |-> <<>>, credentials |-> Null,
     uploadCalls |-> 0, uploadOutcome |-> "none", publicId |-> Undefined,
     wait |-> "none", apiKey |-> Undefined, metaCalls |-> 0,
     metaOutcome |-> "none"]

\* The end of the try block of run i: success toast, form reset, navigation;
\* then the finally block.
UploadSucceeded(u, i) ==
    [u EXCEPT !.runs[i].pc = "done", !.runs[i].exit = "success",
              !.toast = [kind |-> "success", message |-> "Image uploaded successfully!"],
              !.selectedImage = FALSE, !.description = "", !.tags = <<>>,
              !.hasCredentials = TRUE, !.navigations = @ + 1,
              !.uploading = FALSE]

\* The outer catch block of run i: error toast; then the finally block.
UploadFailed(u, i, msg) ==
    [u EXCEPT !.runs[i].pc = "done", !.runs[i].exit = "failed",
              !.toast = [kind |-> "error", message |-> msg],
              !.errorToasts = @ + 1, !.uploading = FALSE]

uploadFrame == <<storeVars, clockVars, screenVars, calls, cred, st, mounted, gw>>

UploadRunIds == 1..MaxUploads

\* The mount effect's checkCredentials: getCloudinaryCredentials resolves.
CheckCredentials ==
    /\ up.mount = "creds"
    /\ up' = [up EXCEPT !.mount = "done",
                        !.hasCredentials = GetCloudinaryCredentials(asyncStorage) # Null]
    /\ UNCHANGED uploadFrame

\* The image button is pressed (rendered with hasCredentials, disabled while
\* uploading): pickImage up to requestMediaLibraryPermissionsAsync.
PickImage ==
    /\ up.hasCredentials
    /\ ~up.uploading
    /\ up.ops < MaxUploadOps
    /\ up' = [up EXCEPT !.permissions = @ + 1, !.ops = @ + 1]
    /\ UNCHANGED uploadFrame

\* The permission request of a pickImage run resolves: the error toast unless
\* it is granted, else launchImageLibraryAsync is called.
PickPermission(status) ==
    /\ up.permissions > 0
    /\ up' = IF status # "granted"
             THEN [up EXCEPT !.permissions = @ - 1,
                             !.toast = [kind |-> "error",
                                        message |-> "Please grant camera roll permissions to upload images."],
                             !.errorToasts = @ + 1]
             ELSE [up EXCEPT !.permissions = @ - 1, !.pickers = @ + 1]
    /\ UNCHANGED uploadFrame

\* The picker of a pickImage run resolves: cancelled (or without an asset),
\* with an asset that has no uri the screen can show, or with an image.
PickResult(result) ==
    /\ up.pickers > 0
    /\ up' = IF result = "canceled" THEN [up EXCEPT !.pickers = @ - 1]
             ELSE IF result = "unreadable"
             THEN [up EXCEPT !.pickers = @ - 1,
                             !.toast = [kind |-> "error",
                                        message |-> "Unable to read the selected image."],
                             !.errorToasts = @ + 1]
             ELSE [up EXCEPT !.pickers = @ - 1, !.selectedImage = TRUE]
    /\ UNCHANGED uploadFrame

\* The description field or the tags field is edited (the form is rendered
\* with hasCredentials and an image selected): setDescription, setTags.
UploadChangeText(field, text) ==
    /\ up.hasCredentials
    /\ up.selectedImage
    /\ up.ops < MaxUploadOps
    /\ up' = [up EXCEPT ![field] = text, !.ops = @ + 1]
    /\ UNCHANGED uploadFrame

\* The upload button is pressed (rendered with hasCredentials and an image
\* selected, disabled while uploading): handleUpload up to its first await,
\* the selected-image test and the call of getCloudinaryCredentials.
HandleUpload ==
    /\ up.hasCredentials
    /\ up.selectedImage
    /\ ~up.uploading
    /\ up.ops < MaxUploadOps
    /\ Len(up.runs) < MaxUploads
    /\ up' = IF ~up.selectedImage
             THEN [up EXCEPT !.toast = [kind |-> "warning",
                                        message |-> "Please select an image first."],
                             !.ops = @ + 1]
             ELSE [up EXCEPT !.runs = Append(@, NewUploadRun(up)), !.ops = @ + 1]
    /\ UNCHANGED uploadFrame

\* getCloudinaryCredentials of run i resolves: the credentials test (the
\* alert and the return come before the try block), setUploading(true), the
\* tag list and the call of uploadImageToCloudinary.
UploadGetCredentials(i) ==
    /\ i \in DOMAIN up.runs
    /\ up.runs[i].pc = "creds"
    /\ LET c == GetCloudinaryCredentials(asyncStorage)
       IN  up' = IF c = Null
                 THEN [up EXCEPT !.runs[i].pc = "done",
                                 !.runs[i].exit = "noCredentials",
                                 !.alerts = @ + 1]
                 ELSE [up EXCEPT !.runs[i].pc = "uploading",
                                 !.runs[i].credentials = c,
                                 !.runs[i].tagsArray = TagsArray(up.runs[i].tags),
                                 !.runs[i].uploadCalls = @ + 1,
                                 !.uploading = TRUE]
    /\ UNCHANGED uploadFrame

\* What the unsigned upload of a run may resolve with: uploadImageToCloudinary
\* returns the parsed body of any 2xx answer as it is, with a public_id,
\* without one, or null.
UploadResults == {[public_id |-> "Modeling/img1"], [public_id |-> Undefined], Null}

\* The unsigned upload of run i resolves: reading public_id of a null result
\* throws a TypeError, with the message of the engine, to the outer catch;
\* else the metadata test, and getCloudinaryApiCredentials called up to its
\* first await.
UploadResolves(i, uploadResult) ==
    /\ i \in DOMAIN up.runs
    /\ up.runs[i].pc = "uploading"
    /\ LET u == [up EXCEPT !.runs[i].uploadOutcome = "resolved"]
       IN  IF uploadResult = Null
           THEN \E msg \in {"Cannot read property 'public_id' of null",
                            "Cannot read properties of null (reading 'public_id')"} :
                   up' = UploadFailed(u, i, msg)
           ELSE up' = IF MetadataWanted(up.runs[i].description, up.runs[i].tagsArray,
                                        uploadResult.public_id)
                      THEN [u EXCEPT !.runs[i].pc = "apiCreds",
                                     !.runs[i].publicId = uploadResult.public_id,
                                     !.runs[i].wait = FirstWait(secureStoreAvailable)]
                      ELSE UploadSucceeded([u EXCEPT !.runs[i].publicId =
                                                        uploadResult.public_id], i)
    /\ UNCHANGED uploadFrame

\* The unsigned upload of run i rejects.
UploadRejects(i, msg) ==
    /\ i \in DOMAIN up.runs
    /\ up.runs[i].pc = "uploading"
    /\ up' = UploadFailed([up EXCEPT !.runs[i].uploadOutcome = "rejected"], i, msg)
    /\ UNCHANGED uploadFrame

\* getCloudinaryApiCredentials called by run i:
\* SecureStore.isAvailableAsync resolves or throws, the flag is assigned and
\* the first read is started.
UploadProbeResolve(i) ==
    /\ i \in DOMAIN up.runs
    /\ up.runs[i].pc = "apiCreds"
    /\ up.runs[i].wait = "probing"
    /\ secureStoreAvailable' = ProbeResult(secureEnv)
    /\ up' = [up EXCEPT !.runs[i].wait = AfterProbe("get", secureStoreAvailable')]
    /\ UNCHANGED <<asyncStorage, secureStore, secureEnv, clockVars, screenVars,
                   calls, cred, st, mounted, gw>>

\* getCloudinaryApiCredentials called by run i, secure backend:
\* SecureStore.getItemAsync(API_KEY_KEY) resolves, the second read is started.
UploadReadKey(i) ==
    /\ i \in DOMAIN up.runs
    /\ up.runs[i].pc = "apiCreds"
    /\ up.runs[i].wait = "readKey"
    /\ up' = [up EXCEPT !.runs[i].wait = "readSecret",
                        !.runs[i].apiKey =
                            PlainString(GetItem(secureStore, API_KEY_KEY))]
    /\ UNCHANGED uploadFrame

\* The last read of getCloudinaryApiCredentials called by run i resolves:
\* updateImageMetadata is called when the pair is there.
UploadGetApiCredentials(i) ==
    /\ i \in DOMAIN up.runs
    /\ up.runs[i].pc = "apiCreds"
    /\ up.runs[i].wait \in {"readSecret", "multiGet"}
    /\ LET api == LastRead(up.runs[i].wait, up.runs[i].apiKey, asyncStorage,
                           secureStore)
       IN  up' = IF api = Null
                 THEN UploadSucceeded([up EXCEPT !.runs[i].wait = "none"], i)
                 ELSE [up EXCEPT !.runs[i].pc = "metadata",
                                 !.runs[i].metaCalls = @ + 1,
                                 !.runs[i].wait = "none"]
    /\ UNCHANGED uploadFrame

\* updateImageMetadata of run i resolves.
MetadataResolves(i) ==
    /\ i \in DOMAIN up.runs
    /\ up.runs[i].pc = "metadata"
    /\ up' = UploadSucceeded([up EXCEPT !.runs[i].metaOutcome = "ok"], i)
    /\ UNCHANGED uploadFrame

\* A mutant of MetadataRejects: the inner catch rethrows to the outer one.
MetadataRejectsRethrown(i) ==
    /\ i \in DOMAIN up.runs
    /\ up.runs[i].pc = "metadata"
    /\ up' = UploadFailed([up EXCEPT !.runs[i].metaOutcome = "raised"], i,
                          "Failed to update metadata")
    /\ UNCHANGED uploadFrame

\* updateImageMetadata of run i rejects: the inner catch logs a warning and
\* the try block goes on.
MetadataRejects(i) ==
    /\ i \in DOMAIN up.runs
    /\ up.runs[i].pc = "metadata"
    /\ up' = UploadSucceeded([up EXCEPT !.runs[i].metaOutcome = "raised"], i)
    /\ UNCHANGED uploadFrame

(***************************************************************************)
(* app/(tabs)/settings.tsx: the state of SettingsScreen                    *)
(***************************************************************************)
\* The five text fields as useState leaves them.
EmptyForm ==
    [cloudName |-> "", uploadPreset |-> "", folder |-> "Modeling", apiKey |-> "",
     apiSecret |-> ""]

\* The screen as useState leaves it, no handler running and the screen not
\* mounted: the five text fields, loading, hasCredentials, the toast shown
\* last; the position of loadCredentials (load), of handleSave (pc, with the
\* field values of the render it was pressed in, saved), the alerts of
\* handleClear that wait for an answer (alerts) and the
\* clearCloudinaryCredentials calls that have not returned (clearing); ops
\* and typed count the presses and the edits of the user.
IdleSettings ==
    [pc |-> "idle", cloudName |-> "", uploadPreset |-> "", folder |-> "Modeling",
     apiKey |-> "", apiSecret |-> "", loading |-> FALSE, hasCredentials |-> FALSE,
     toast |-> "none", displaySave |-> "none", call |-> 0,
     ops |-> 0, typed |-> 0, clears |-> 0, mountClears |-> 0,
     load |-> "none", saved |-> EmptyForm, alerts |-> 0, clearing |-> {}]

(***************************************************************************)
(* app/api/fetch-photos+api.ts: getPhotosFromFolder                         *)
(***************************************************************************)
\* No getPhotosFromFolder call has been made. maps holds, for each resource
\* of the result being mapped, the position of its mapper, what became of
\* its api.resource call and its photo.
IdleSearch ==
    [pc |-> "idle", folderName |-> "", responses |-> <<>>, i |-> 1,
     result |-> Null, lastError |-> Null, tried |-> <<>>, listed |-> "none",
     maps |-> <<>>, out |-> Null]

\* The three search expressions, in the order the loop tries them.
Expressions(folderName) ==
    <<"folder:" \o folderName \o "/*",
      "folder:" \o folderName,
      "resource_type:image AND folder:" \o folderName \o "/*">>

\* The values a field of a resource may hold: absent (Null), a string (its
\* code units), a number, an array of strings.
Text(units) == [t |-> "text", u |-> units]
Number(n) == [t |-> "number", n |-> n]
Array(items) == [t |-> "array", items |-> items]

\* The truthiness of such a value.
Truthy(v) ==
    \/ v.t = "text" /\ Len(v.u) > 0
    \/ v.t = "number" /\ v.n # 0
    \/ v.t = "array"

\* a || b
Or(a, b) == IF Truthy(a) THEN a ELSE b

\* A resource of a search result, with its context (caption, alt, tags) and
\* its metadata (caption, description); a context or metadata object that is
\* absent has every field absent.
Resource(folderName, n, context, metadata, tags) ==
    [public_id |-> folderName \o "/" \o n,
     secure_url |-> "https://res/" \o folderName \o "/" \o n,
     context |-> [caption |-> context[1], alt |-> context[2], tags |-> context[3]],
     metadata |-> [caption |-> metadata[1], description |-> metadata[2]],
     tags |-> tags, width |-> 800, height |-> 600, format |-> "jpg",
     created_at |-> "2024-01-01T00:00:00Z"]

\* The resource lists of the results. A bare resource has nothing set. The
\* others have: an encoded caption, a tag and context tags that repeat it; a
\* description that does not decode, an empty caption and tags that are no
\* array; a number for metadata caption and for context tags, an alt text
\* and a tag twice.
ResourceLists(folderName) ==
    LET none == <<Null, Null, Null>>
        bare(n) == Resource(folderName, n, none, none, Array(<<>>))
        captioned == Resource(folderName, "3",
                              <<Text(Units("a%20cat")), Null, Text(Units("pet, cat ,"))>>,
                              none, Array(<<Units("pet")>>))
        malformed == Resource(folderName, "4", <<Text(<<>>), Null, Null>>,
                              <<Null, Text(Units("100%"))>>, Text(Units("pet")))
        numbered == Resource(folderName, "5", <<Null, Null, Number(7)>>,
                             <<Number(5), Text(Units("alt"))>>,
                             Array(<<Units("pet"), Units("pet")>>))
    IN  {<<>>, <<bare("1")>>, <<bare("2"), bare("1")>>, <<captioned, bare("1")>>,
         <<malformed, numbered>>}

\* What execute() may do for an expression: reject, or resolve with a result
\* that has no resources field or one of the resource lists.
SearchResponses(folderName, expression) ==
    {[t |-> "throws", error |-> "search failed: " \o expression]}
    \cup {[t |-> "result", hasResources |-> FALSE, resources |-> <<>>]}
    \cup {[t |-> "result", hasResources |-> TRUE, resources |-> rs] :
            rs \in ResourceLists(folderName)}

\* What api.resource may resolve with: nothing set, an encoded caption and
\* tags, an alt text in escaped UTF-8 and an empty tag array.
DirectResources ==
    {[context |-> [caption |-> Null, alt |-> Null], tags |-> Null],
     [context |-> [caption |-> Text(Units("tea%2C%20time")), alt |-> Text(Units("alt"))],
      tags |-> Array(<<Units("cat"), Units("pet")>>)],
     [context |-> [caption |-> Text(<<>>), alt |-> Text(Units("%E2%82%AC5"))],
      tags |-> Array(<<>>)]}

\* A mutant of HasResources: any result that has a resources array counts.
HasResourcesAnyArray(result) == result.t = "result" /\ result.hasResources

\* result.resources && result.resources.length > 0, for a result that is set.
HasResources(result) ==
    result.t = "result" /\ result.hasResources /\ Len(result.resources) > 0

\* decodeURIComponent from position k on: a code unit other than "%" is kept;
\* an escape opens a UTF-8 sequence of one to four escaped octets, replaced by
\* the code units of its code point; ok is FALSE where it throws URIError
\* (an incomplete escape, a wrong lead or continuation octet, an overlong
\* form, a surrogate, a code point above U+10FFFF).
RECURSIVE DecodeFrom(_, _)
DecodeFrom(s, k) ==
    IF k > Len(s) THEN [ok |-> TRUE, u |-> <<>>]
    ELSE IF s[k] # 37
    THEN LET rest == DecodeFrom(s, k + 1)
         IN  [ok |-> rest.ok, u |-> <<s[k]>> \o rest.u]
    ELSE LET hex(c) == IF c \in 48..57 THEN c - 48
                       ELSE IF c \in 65..70 THEN c - 55
                       ELSE IF c \in 97..102 THEN c - 87
                       ELSE -1
             \* The octet of the escape "%XY" at position j, -1 when there is none.
             octet(j) == IF /\ j + 2 <= Len(s)
                            /\ s[j] = 37
                            /\ hex(s[j + 1]) >= 0
                            /\ hex(s[j + 2]) >= 0
                         THEN 16 * hex(s[j + 1]) + hex(s[j + 2])
                         ELSE -1
             b == octet(k)
             n == IF b < 128 THEN 1
                  ELSE IF b \in 192..223 THEN 2
                  ELSE IF b \in 224..239 THEN 3
                  ELSE IF b \in 240..247 THEN 4
                  ELSE 0
             c == [j \in 1..3 |-> octet(k + 3 * j)]
             v == IF n = 1 THEN b
                  ELSE IF n = 2 THEN (b - 192) * 64 + (c[1] - 128)
                  ELSE IF n = 3
                  THEN (b - 224) * 4096 + (c[1] - 128) * 64 + (c[2] - 128)
                  ELSE (b - 240) * 262144 + (c[1] - 128) * 4096
                       + (c[2] - 128) * 64 + (c[3] - 128)
             valid == /\ b >= 0
                      /\ n > 0
                      /\ \A j \in 1..(n - 1) : c[j] \in 128..191
                      /\ n = 2 => v >= 128
                      /\ n = 3 => v >= 2048 /\ v \notin 55296..57343
                      /\ n = 4 => v \in 65536..1114111
             units == IF v < 65536 THEN <<v>>
                      ELSE <<55296 + ((v - 65536) \div 1024),
                             56320 + ((v - 65536) % 1024)>>
             rest == DecodeFrom(s, k + 3 * n)
         IN  IF ~valid THEN [ok |-> FALSE, u |-> <<>>]
             ELSE [ok |-> rest.ok, u |-> units \o rest.u]

\* [...new Set(tags)]: the first occurrence of each tag, in order.
RECURSIVE Dedupe(_)
Dedupe(tags) ==
    IF tags = <<>> THEN <<>>
    ELSE LET front == Dedupe(SubSeq(tags, 1, Len(tags) - 1))
             last == tags[Len(tags)]
         IN  IF \E k \in DOMAIN front : front[k] = last THEN front
             ELSE Append(front, last)

\* The description and the tags a mapper takes from the search result.
SearchDescription(resource) ==
    Or(resource.context.caption,
       Or(resource.context.alt,
          Or(resource.metadata.caption, Or(resource.metadata.description, Null))))

SearchTags(resource) == IF resource.tags.t = "array" THEN resource.tags.items ELSE <<>>

\* The rest of a mapper: a description that is a non-empty string is decoded
\* and kept as it is when decodeURIComponent throws, the context tags are
\* merged in, the photo is built.
PhotoOf(resource, description, tags) ==
    LET d == DecodeFrom(description.u, 1)
        decoded == IF Truthy(description) /\ description.t = "text" /\ d.ok
                   THEN Text(d.u) ELSE description
        contextTags == resource.context.tags
        merged == IF Truthy(contextTags) /\ contextTags.t = "text"
                  THEN Dedupe(tags \o TagsArray(contextTags.u))
                  ELSE tags
    IN  [url |-> resource.secure_url, public_id |-> resource.public_id,
         description |-> Or(decoded, Text(Units("Professional modeling photoshoot"))),
         tags |-> merged, width |-> resource.width, height |-> resource.height,
         format |-> resource.format, created_at |-> resource.created_at]

\* Promise.all resolves once every mapper has returned: the photos are
\* returned in the order of the resources.
MapReturn(g) ==
    IF \A k \in DOMAIN g.maps : g.maps[k].pc = "done"
    THEN [g EXCEPT !.pc = "done",
                   !.out = [t |-> "returned", error |-> "",
                            photos |-> [k \in DOMAIN g.maps |-> g.maps[k].photo]]]
    ELSE g

\* result.resources.map(async ...): every mapper runs up to its api.resource
\* call, made if (!description && !tags.length), or to its end.
MapStart(g) ==
    MapReturn([g EXCEPT !.pc = "mapping",
                        !.maps = [k \in DOMAIN g.result.resources |->
                                    LET resource == g.result.resources[k]
                                    IN  IF /\ ~Truthy(SearchDescription(resource))
                                           /\ Len(SearchTags(resource)) = 0
                                        THEN [pc |-> "lookup", lookup |-> "pending",
                                              photo |-> Null]
                                        ELSE [pc |-> "done", lookup |-> "none",
                                              photo |-> PhotoOf(resource,
                                                          SearchDescription(resource),
                                                          SearchTags(resource))]]])

\* Where the call goes when the loop is left:
\* if (!result || !result.resources || result.resources.length === 0)
AfterLoop(g) ==
    IF ~HasResources(g.result) THEN [g EXCEPT !.pc = "listing"] ELSE MapStart(g)

\* The end of one iteration that did not break: the next expression, or the
\* end of the loop after the third.
NextExpression(g) ==
    IF g.i < Len(Expressions(g.folderName))
    THEN [g EXCEPT !.i = @ + 1]
    ELSE AfterLoop([g EXCEPT !.i = @ + 1])

searchFrame == <<storeVars, clockVars, screenVars, calls, cred, up, st, mounted>>

\* One iteration of the loop: the expression is executed; a rejection is kept
\* in lastError and the loop continues, a result with resources breaks the
\* loop and starts the mappers, any other result is kept and the loop
\* continues.
SearchExecute ==
    /\ gw.pc = "searching"
    /\ LET r == gw.responses[gw.i]
           g == [gw EXCEPT !.tried = Append(@, Expressions(gw.folderName)[gw.i])]
       IN  gw' = IF r.t = "throws"
                 THEN NextExpression([g EXCEPT !.lastError = Str(r.error)])
                 ELSE IF HasResources(r)
                 THEN AfterLoop([g EXCEPT !.result = r])
                 ELSE NextExpression([g EXCEPT !.result = r])
    /\ UNCHANGED searchFrame

\* No images found: the listing of the account is awaited, its rejection only
\* logged; then lastError is thrown if it is set, else [] is returned.
SearchListAll(listing) ==
    /\ gw.pc = "listing"
    /\ gw' = [gw EXCEPT !.pc = "done", !.listed = listing,
                        !.out = IF gw.lastError # Null
                                THEN [t |-> "threw", error |-> gw.lastError.s,
                                      photos |-> <<>>]
                                ELSE [t |-> "returned", error |-> "",
                                      photos |-> <<>>]]
    /\ UNCHANGED searchFrame

ResourceIds == {1, 2}

\* api.resource of the k-th mapper resolves: the direct answer replaces the
\* description and the tags it has, and the mapper ends.
SearchResourceResolves(k, directResource) ==
    /\ gw.pc = "mapping"
    /\ k \in DOMAIN gw.maps
    /\ gw.maps[k].pc = "lookup"
    /\ LET resource == gw.result.resources[k]
           context == directResource.context
           tags == directResource.tags
           photo == PhotoOf(resource,
                            IF Truthy(context.caption) \/ Truthy(context.alt)
                            THEN Or(context.caption, context.alt)
                            ELSE SearchDescription(resource),
                            IF tags.t = "array" /\ Len(tags.items) > 0
                            THEN tags.items
                            ELSE SearchTags(resource))
       IN  gw' = MapReturn([gw EXCEPT !.maps[k] = [pc |-> "done",
                                                    lookup |-> "resolved",
                                                    photo |-> photo]])
    /\ UNCHANGED searchFrame

\* api.resource of the k-th mapper rejects: the warning is logged and the
\* mapper ends with what the search result gave.
SearchResourceRejects(k) ==
    /\ gw.pc = "mapping"
    /\ k \in DOMAIN gw.maps
    /\ gw.maps[k].pc = "lookup"
    /\ LET resource == gw.result.resources[k]
           photo == PhotoOf(resource, SearchDescription(resource),
                            SearchTags(resource))
       IN  gw' = MapReturn([gw EXCEPT !.maps[k] = [pc |-> "done",
                                                    lookup |-> "rejected",
                                                    photo |-> photo]])
    /\ UNCHANGED searchFrame

(***************************************************************************)
(* services/cloudinaryService.ts: fetchPhotos                              *)
(***************************************************************************)
DEFAULT_FOLDER == "Modeling"

\* credentials.folder || 'Modeling'
ResolveFolder(credentials) ==
    IF TruthyString(Field(credentials, "folder"))
    THEN Field(credentials, "folder") ELSE DEFAULT_FOLDER

\* fetchPhotos rejects before any request when the key or the secret is missing.
FetchPhotosHasCredentials(apiKey, apiSecret) ==
    TruthyString(apiKey) /\ TruthyString(apiSecret)

\* A photo as the gateway returns it for a folder.
Photo(folder, n) ==
    [public_id |-> folder \o "/" \o n, url |-> "https://res/" \o folder \o "/" \o n]

\* The photo lists the gateway may answer a request for a folder with.
ServerResults(folder) ==
    {<<>>, <<Photo(folder, "1")>>, <<Photo(folder, "2"), Photo(folder, "1")>>}

\* The messages a failed request may carry.
FetchErrors == {"Failed to fetch photos: 500 ", "Network request failed"}

(***************************************************************************)
(* app/(tabs)/photos.tsx: PhotosScreen, loadPhotos and onRefresh           *)
(***************************************************************************)
LoadIds == 1..MaxLoads

IdleLoad ==
    [pc |-> "idle", useCache |-> FALSE, exit |-> "none",
     credentials |-> Null, apiCredentials |-> Null, folder |-> "",
     served |-> <<>>, bg |-> "none", fetched |-> <<>>, ts |-> 0,
     netCalls |-> 0, alerted |-> FALSE, toast |-> "",
     clearPc |-> "none", clearKeys |-> {}, overlap |-> FALSE,
     wait |-> "none", apiKey |-> Undefined]

\* A mutant of GateOutcome: the display credentials are not tested.
GateOutcomeNoDisplayCheck(credentials, apiCredentials) ==
    IF apiCredentials = Null THEN "gateSecret" ELSE "proceed"

\* A mutant of GateOutcome: the secret credentials are not tested.
GateOutcomeNoSecretCheck(credentials, apiCredentials) ==
    IF credentials = Null THEN "gateDisplay" ELSE "proceed"

\* The two early returns of loadPhotos.
GateOutcome(credentials, apiCredentials) ==
    IF credentials = Null THEN "gateDisplay"
    ELSE IF apiCredentials = Null THEN "gateSecret"
    ELSE "proceed"

\* The load record after fetchPhotos is called on the foreground path: the
\* request goes out, or the call rejects at once and the catch block runs.
IssueForeground(ld) ==
    IF FetchPhotosHasCredentials(Field(ld.apiCredentials, "apiKey"),
                                 Field(ld.apiCredentials, "apiSecret"))
    THEN [ld EXCEPT !.pc = "fetching", !.netCalls = @ + 1]
    ELSE [ld EXCEPT !.pc = "done", !.exit = "failed",
                    !.toast = "API credentials required to fetch photos"]

\* The load record after fetchPhotos is called on the background path.
IssueBackground(ld) ==
    IF FetchPhotosHasCredentials(Field(ld.apiCredentials, "apiKey"),
                                 Field(ld.apiCredentials, "apiSecret"))
    THEN [ld EXCEPT !.pc = "bgFetching", !.bg = "pending", !.netCalls = @ + 1]
    ELSE [ld EXCEPT !.pc = "done", !.bg = "failed"]

\* cachedPhotos && cachedPhotos.length > 0
ServesFromCache(r) == r.hit /\ Len(r.photos) > 0

\* loadPhotos, first await: getCloudinaryCredentials resolves, and
\* getCloudinaryApiCredentials is called and runs up to its first await.
LoadGetCredentials(l) ==
    /\ loads[l].pc = "creds"
    /\ loads' = [loads EXCEPT ![l] =
            [@ EXCEPT !.pc = "apiCreds",
                      !.credentials = GetCloudinaryCredentials(asyncStorage),
                      !.wait = FirstWait(secureStoreAvailable)]]
    /\ UNCHANGED <<storeVars, clockVars, photos, loading, refreshing, otherVars>>

\* getCloudinaryApiCredentials called by loadPhotos: SecureStore.isAvailableAsync
\* resolves or throws, the flag is assigned and the first read is started.
LoadProbeResolve(l) ==
    /\ loads[l].pc = "apiCreds"
    /\ loads[l].wait = "probing"
    /\ secureStoreAvailable' = ProbeResult(secureEnv)
    /\ loads' = [loads EXCEPT ![l] =
            [@ EXCEPT !.wait = AfterProbe("get", secureStoreAvailable')]]
    /\ UNCHANGED <<asyncStorage, secureStore, secureEnv, clockVars, photos, loading,
                   refreshing, otherVars>>

\* getCloudinaryApiCredentials called by loadPhotos, secure backend:
\* SecureStore.getItemAsync(API_KEY_KEY) resolves, the second read is started.
LoadReadKey(l) ==
    /\ loads[l].pc = "apiCreds"
    /\ loads[l].wait = "readKey"
    /\ loads' = [loads EXCEPT ![l] =
            [@ EXCEPT !.wait = "readSecret",
                      !.apiKey = PlainString(GetItem(secureStore, API_KEY_KEY))]]
    /\ UNCHANGED <<storeVars, clockVars, photos, loading, refreshing, otherVars>>

\* loadPhotos, second await: the last read of getCloudinaryApiCredentials
\* resolves, then the two gates and either the cache lookup or the foreground
\* request.
LoadGetApiCredentials(l) ==
    /\ loads[l].pc = "apiCreds"
    /\ loads[l].wait \in {"readSecret", "multiGet"}
    /\ LET api == LastRead(loads[l].wait, loads[l].apiKey, asyncStorage, secureStore)
           ld == [loads[l] EXCEPT !.apiCredentials = api, !.wait = "none",
                                  !.folder = ResolveFolder(loads[l].credentials)]
           gate == GateOutcome(ld.credentials, api)
       IN  IF gate = "gateDisplay"
           THEN /\ loads' = [loads EXCEPT ![l] =
                        [ld EXCEPT !.pc = "done", !.exit = "gateDisplay"]]
                /\ loading' = FALSE
                /\ refreshing' = FALSE
           ELSE IF gate = "gateSecret"
           THEN /\ loads' = [loads EXCEPT ![l] =
                        [ld EXCEPT !.pc = "done", !.exit = "gateSecret",
                                   !.alerted = TRUE]]
                /\ loading' = FALSE
                /\ refreshing' = FALSE
           ELSE IF ld.useCache
           THEN /\ loads' = [loads EXCEPT ![l] = [ld EXCEPT !.pc = "cacheRead"]]
                /\ UNCHANGED <<loading, refreshing>>
           ELSE /\ loads' = [loads EXCEPT ![l] = IssueForeground(ld)]
                /\ loading' = IF IssueForeground(ld).pc = "done" THEN FALSE ELSE loading
                /\ refreshing' = IF IssueForeground(ld).pc = "done" THEN FALSE
                                  ELSE refreshing
    /\ UNCHANGED <<storeVars, clockVars, photos, otherVars>>

\* loadPhotos, useCache branch: getCachedPhotos, then either the cached list is
\* shown and the background request goes out, or the foreground request does.
LoadCacheRead(l) ==
    /\ loads[l].pc = "cacheRead"
    /\ LET r == GetCachedPhotos(asyncStorage, loads[l].folder, now)
       IN  IF ServesFromCache(r)
           THEN /\ photos' = r.photos
                /\ loading' = FALSE
                /\ refreshing' = FALSE
                /\ loads' = [loads EXCEPT ![l] =
                        IssueBackground([@ EXCEPT !.served = r.photos, !.exit = "hit"])]
           ELSE /\ loads' = [loads EXCEPT ![l] = IssueForeground(@)]
                /\ loading' = IF IssueForeground(loads[l]).pc = "done" THEN FALSE
                               ELSE loading
                /\ refreshing' = IF IssueForeground(loads[l]).pc = "done" THEN FALSE
                                  ELSE refreshing
                /\ UNCHANGED photos
    /\ UNCHANGED <<storeVars, clockVars, otherVars>>

\* The foreground request resolves: setPhotos, then cachePhotos is called and
\* takes its timestamp.
LoadFetchSuccess(l) ==
    /\ loads[l].pc = "fetching"
    /\ \E ps \in ServerResults(ResolveFolder(loads[l].credentials)) :
          /\ photos' = ps
          /\ loads' = [loads EXCEPT ![l] =
                  [@ EXCEPT !.pc = "caching", !.fetched = ps, !.ts = now]]
    /\ UNCHANGED <<storeVars, clockVars, loading, refreshing, otherVars>>

\* The awaited cachePhotos write lands, then the finally block runs.
LoadCacheWritten(l) ==
    /\ loads[l].pc = "caching"
    /\ asyncStorage' = CachePhotos(asyncStorage, loads[l].fetched, loads[l].folder,
                                   loads[l].ts)
    /\ loading' = FALSE
    /\ refreshing' = FALSE
    /\ loads' = [loads EXCEPT ![l] = [@ EXCEPT !.pc = "done", !.exit = "loaded"]]
    /\ UNCHANGED <<secureStore, secureStoreAvailable, secureEnv, clockVars, photos,
                   otherVars>>

\* A mutant of LoadFetchFail: the foreground rejection is swallowed like the
\* background one.
LoadFetchFailSilent(l) ==
    /\ loads[l].pc = "fetching"
    /\ loads' = [loads EXCEPT ![l] = [@ EXCEPT !.pc = "done", !.exit = "failed"]]
    /\ loading' = FALSE
    /\ refreshing' = FALSE
    /\ UNCHANGED <<storeVars, clockVars, photos, otherVars>>

\* A mutant of LoadFetchFail: the catch block runs without the finally block.
LoadFetchFailNoFinally(l) ==
    /\ loads[l].pc = "fetching"
    /\ \E msg \in FetchErrors :
          loads' = [loads EXCEPT ![l] =
              [@ EXCEPT !.pc = "done", !.exit = "failed", !.toast = msg]]
    /\ UNCHANGED <<storeVars, clockVars, photos, loading, refreshing, otherVars>>

\* A mutant of LoadFetchFail: the catch block also empties the list.
LoadFetchFailClearsList(l) ==
    /\ loads[l].pc = "fetching"
    /\ \E msg \in FetchErrors :
          loads' = [loads EXCEPT ![l] =
              [@ EXCEPT !.pc = "done", !.exit = "failed", !.toast = msg]]
    /\ photos' = <<>>
    /\ loading' = FALSE
    /\ refreshing' = FALSE
    /\ UNCHANGED <<storeVars, clockVars, otherVars>>

\* The foreground request rejects: the catch block shows the error's message,
\* then the finally block runs.
LoadFetchFail(l) ==
    /\ loads[l].pc = "fetching"
    /\ \E msg \in FetchErrors :
          loads' = [loads EXCEPT ![l] =
              [@ EXCEPT !.pc = "done", !.exit = "failed", !.toast = msg]]
    /\ loading' = FALSE
    /\ refreshing' = FALSE
    /\ UNCHANGED <<storeVars, clockVars, photos, otherVars>>

\* The background request resolves: setPhotos, then cachePhotos is called
\* (not awaited) and takes its timestamp.
BgFetchSuccess(l) ==
    /\ loads[l].pc = "bgFetching"
    /\ \E ps \in ServerResults(ResolveFolder(loads[l].credentials)) :
          /\ photos' = ps
          /\ loads' = [loads EXCEPT ![l] =
                  [@ EXCEPT !.pc = "bgCaching", !.bg = "ok", !.fetched = ps,
                            !.ts = now]]
    /\ UNCHANGED <<storeVars, clockVars, loading, refreshing, otherVars>>

\* A mutant of BgCacheWritten: the background result is not cached.
BgCacheSkipped(l) ==
    /\ loads[l].pc = "bgCaching"
    /\ loads' = [loads EXCEPT ![l] = [@ EXCEPT !.pc = "done"]]
    /\ UNCHANGED <<storeVars, clockVars, photos, loading, refreshing, otherVars>>

\* The background cachePhotos write lands.
BgCacheWritten(l) ==
    /\ loads[l].pc = "bgCaching"
    /\ asyncStorage' = CachePhotos(asyncStorage, loads[l].fetched, loads[l].folder,
                                   loads[l].ts)
    /\ loads' = [loads EXCEPT ![l] = [@ EXCEPT !.pc = "done"]]
    /\ UNCHANGED <<secureStore, secureStoreAvailable, secureEnv, clockVars, photos,
                   loading, refreshing, otherVars>>

\* A mutant of BgFetchFail: the background rejection is handled like the
\* foreground one (error toast, list emptied).
BgFetchFailLoud(l) ==
    /\ loads[l].pc = "bgFetching"
    /\ \E msg \in FetchErrors :
          loads' = [loads EXCEPT ![l] =
              [@ EXCEPT !.pc = "done", !.bg = "failed", !.toast = msg]]
    /\ photos' = <<>>
    /\ UNCHANGED <<storeVars, clockVars, loading, refreshing, otherVars>>

\* The background request rejects: the empty catch callback.
BgFetchFail(l) ==
    /\ loads[l].pc = "bgFetching"
    /\ loads' = [loads EXCEPT ![l] = [@ EXCEPT !.pc = "done", !.bg = "failed"]]
    /\ UNCHANGED <<storeVars, clockVars, photos, loading, refreshing, otherVars>>

\* onRefresh, offered by the pull-to-refresh control of the list and by the
\* Refresh button of the empty state: setRefreshing(true), clearPhotoCache()
\* started and not awaited, loadPhotos(false) started. The load records
\* whether an earlier loadPhotos was still running when it started.
OnRefresh(l) ==
    /\ l > 1
    /\ loads[l].pc = "idle"
    /\ loads[l - 1].pc # "idle"
    /\ mounted
    /\ ~loading
    /\ photos = <<>> \/ ~refreshing
    /\ refreshing' = TRUE
    /\ loads' = [loads EXCEPT ![l] =
            [IdleLoad EXCEPT !.pc = "creds", !.useCache = FALSE,
                             !.clearPc = "getAllKeys",
                             !.overlap = \E m \in DOMAIN loads :
                                            loads[m].pc \notin {"idle", "done"}]]
    /\ UNCHANGED <<storeVars, clockVars, photos, loading, otherVars>>

\* clearPhotoCache(), first await: getAllKeys and the prefix filter.
ClearGetAllKeys(l) ==
    /\ loads[l].clearPc = "getAllKeys"
    /\ loads' = [loads EXCEPT ![l] =
            [@ EXCEPT !.clearPc = "multiRemove", !.clearKeys = CacheKeysOf(asyncStorage)]]
    /\ UNCHANGED <<storeVars, clockVars, photos, loading, refreshing, otherVars>>

\* clearPhotoCache(), second await: multiRemove of the keys picked.
ClearMultiRemove(l) ==
    /\ loads[l].clearPc = "multiRemove"
    /\ asyncStorage' = MultiRemove(asyncStorage, loads[l].clearKeys)
    /\ loads' = [loads EXCEPT ![l] = [@ EXCEPT !.clearPc = "done"]]
    /\ UNCHANGED <<secureStore, secureStoreAvailable, secureEnv, clockVars, photos,
                   loading, refreshing, otherVars>>

\* The wall clock advances by one millisecond.
Tick ==
    /\ ticks < MaxTicks
    /\ now' = now + 1
    /\ ticks' = ticks + 1
    /\ UNCHANGED <<storeVars, screenVars, otherVars>>

(***************************************************************************)
(* The gallery: what the storage may hold when the screen is mounted, and  *)
(* the steps of the screen.                                                *)
(***************************************************************************)
\* The map holding the given <<key, text>> pairs.
MapOf(pairs) ==
    [k \in {p[1] : p \in pairs} |-> (CHOOSE p \in pairs : p[1] = k)[2]]

EmptyMap == MapOf({})

\* The display credentials handleSave writes for a folder.
StoredCredentials(folder) ==
    {<<CLOUDINARY_CREDENTIALS_KEY,
       JSONStringify([cloudName |-> "demo", uploadPreset |-> "preset",
                      folder |-> folder])>>}

StoredEntry(folder, ps, t) ==
    {<<CacheKey(folder),
       StringifyCachedPhotos([photos |-> ps, timestamp |-> t, folder |-> folder])>>}

\* The API key and secret as handleSave left them in the backend it chose.
SecurePair(k, s) == {<<API_KEY_KEY, Str(k)>>, <<API_SECRET_KEY, Str(s)>>}
FallbackPair(k, s) ==
    {<<FALLBACK_API_KEY_KEY, Str(k)>>, <<FALLBACK_API_SECRET_KEY, Str(s)>>}

\* Platform and stored secret tier: nothing stored, the pair stored in the
\* backend of the platform, or a pair left in the secure backend of a platform
\* whose probe throws.
InitSecret ==
    {[env |-> "available", fallback |-> {}, secure |-> {}],
     [env |-> "available", fallback |-> {}, secure |-> SecurePair("key1", "secret1")],
     [env |-> "unavailable", fallback |-> FallbackPair("key1", "secret1"),
      secure |-> {}],
     [env |-> "throws", fallback |-> {}, secure |-> SecurePair("key1", "secret1")]}

\* The screen is mounted and its effect has called loadPhotos(true). The
\* storage holds no display credentials, credentials with a folder or without
\* one, and the cache entries an earlier session left, all stamped 0.
Init ==
    /\ \E d \in {{}, StoredCredentials("A"), StoredCredentials(Undefined)},
          s \in InitSecret,
          c \in {{},
                 StoredEntry("A", <<Photo("A", "0")>>, 0),
                 StoredEntry("A", <<Photo("A", "0")>>, 0)
                     \cup StoredEntry("B", <<Photo("B", "0")>>, 0),
                 StoredEntry("A", <<>>, 0) \cup StoredEntry("B", <<Photo("B", "0")>>, 0),
                 StoredEntry(DEFAULT_FOLDER, <<Photo(DEFAULT_FOLDER, "0")>>, 0)} :
          /\ asyncStorage = MapOf(d \cup s.fallback \cup c)
          /\ secureStore = MapOf(s.secure)
          /\ secureEnv = s.env
    /\ secureStoreAvailable = "null"
    /\ now = CACHE_EXPIRY_MS - 1
    /\ ticks = 0
    /\ photos = <<>>
    /\ loading = TRUE
    /\ refreshing = FALSE
    /\ loads = [l \in LoadIds |->
                  IF l = 1 THEN [IdleLoad EXCEPT !.pc = "creds", !.useCache = TRUE]
                  ELSE IdleLoad]
    /\ calls = <<>>
    /\ cred = <<>>
    /\ up = IdleUpload
    /\ st = IdleSettings
    /\ mounted = TRUE
    /\ gw = IdleSearch

Next ==
    \/ \E l \in LoadIds : LoadGetCredentials(l)
    \/ \E l \in LoadIds : LoadProbeResolve(l)
    \/ \E l \in LoadIds : LoadReadKey(l)
    \/ \E l \in LoadIds : LoadGetApiCredentials(l)
    \/ \E l \in LoadIds : LoadCacheRead(l)
    \/ \E l \in LoadIds : LoadFetchSuccess(l)
    \/ \E l \in LoadIds : LoadCacheWritten(l)
    \/ \E l \in LoadIds : LoadFetchFail(l)
    \/ \E l \in LoadIds : BgFetchSuccess(l)
    \/ \E l \in LoadIds : BgCacheWritten(l)
    \/ \E l \in LoadIds : BgFetchFail(l)
    \/ \E l \in LoadIds : OnRefresh(l)
    \/ \E l \in LoadIds : ClearGetAllKeys(l)
    \/ \E l \in LoadIds : ClearMultiRemove(l)
    \/ Tick

Spec == Init /\ [][Next]_vars

(***************************************************************************)
(* Properties of the gallery loader.                                       *)
(***************************************************************************)
\* Load m has written the photo list (setPhotos) at some point.
WrotePhotos(m) ==
    \/ loads[m].pc \in {"caching", "bgCaching"}
    \/ loads[m].exit \in {"hit", "loaded"}

\* Load l has gone past the two credential reads.
PastGates(l) == loads[l].pc \notin {"idle", "creds", "apiCreds"}

\* C1: stale-while-revalidate. The step in which the background request of a
\* load that served a cached list rejects changes neither the photo list nor
\* the loading flags, shows no toast and no alert; and when no other load has
\* written the list, the list is then exactly the cached list that was served,
\* which is not empty.
C1_StaleWhileRevalidate ==
    [][\A l \in LoadIds :
         (loads[l].pc = "bgFetching" /\ loads'[l].pc = "done")
         => /\ loads[l].exit = "hit"
            /\ photos' = photos
            /\ loading' = loading
            /\ refreshing' = refreshing
            /\ \A m \in LoadIds : /\ loads'[m].toast = loads[m].toast
                                  /\ loads'[m].alerted = loads[m].alerted
            /\ loads'[l].toast = ""
            /\ (\A m \in LoadIds \ {l} : ~WrotePhotos(m))
                  => (photos' = loads[l].served /\ photos' # <<>>)]_vars

C1_Witness ==
    \E l \in LoadIds :
        /\ loads[l].pc = "done"
        /\ loads[l].exit = "hit"
        /\ loads[l].bg = "failed"
        /\ loads[l].netCalls = 1
        /\ photos = loads[l].served
        /\ photos # <<>>

\* C2: display-tier gating. A load that reads its display credentials while
\* none are stored holds none, and a load that holds no display credentials,
\* once past the two credential reads, has ended in the display gate and has
\* issued no request, whether it is the first load or a refresh.
C2_DisplayGate ==
    [][\A l \in LoadIds :
         /\ (loads[l].pc = "creds" /\ loads'[l].pc # "creds"
              /\ CLOUDINARY_CREDENTIALS_KEY \notin DOMAIN asyncStorage)
            => loads'[l].credentials = Null
         /\ (loads'[l].pc \notin {"idle", "creds"} /\ loads'[l].credentials = Null)
            => loads'[l].netCalls = 0
         /\ (loads'[l].pc \notin {"idle", "creds", "apiCreds"}
              /\ loads'[l].credentials = Null)
            => /\ loads'[l].pc = "done"
               /\ loads'[l].exit = "gateDisplay"]_vars

C2_Witness ==
    /\ CLOUDINARY_CREDENTIALS_KEY \notin DOMAIN asyncStorage
    /\ loads[1].useCache /\ loads[1].exit = "gateDisplay" /\ loads[1].netCalls = 0
    /\ \E l \in LoadIds :
         /\ ~loads[l].useCache
         /\ loads[l].pc = "done"
         /\ loads[l].exit = "gateDisplay"
         /\ loads[l].netCalls = 0

\* C3: secret-tier gating. A load that holds display credentials and no
\* secret credentials has, once past the two credential reads, ended in the
\* secret gate with no request issued and the alert shown; a load that ended
\* in the display gate has shown no alert and no toast, so the two gates give
\* different signals.
C3_SecretGate ==
    \A l \in LoadIds :
        /\ (PastGates(l) /\ loads[l].credentials # Null
              /\ loads[l].apiCredentials = Null)
           => /\ loads[l].pc = "done"
              /\ loads[l].exit = "gateSecret"
              /\ loads[l].netCalls = 0
              /\ loads[l].alerted
        /\ loads[l].exit = "gateDisplay"
           => (~loads[l].alerted /\ loads[l].toast = "")
        /\ loads[l].exit = "gateSecret"
           => (loads[l].credentials # Null /\ loads[l].apiCredentials = Null)

C3_Witness ==
    \E l \in LoadIds :
        /\ loads[l].pc = "done"
        /\ loads[l].exit = "gateSecret"
        /\ loads[l].credentials # Null
        /\ loads[l].alerted
        /\ loads[l].netCalls = 0

\* C4: refresh clears before it fetches. While the cache clear started by a
\* refresh has not finished, the load of that refresh has issued no request;
\* and a refresh issues at most one request.
C4_ClearBeforeFetch ==
    \A l \in LoadIds :
        /\ loads[l].clearPc \in {"getAllKeys", "multiRemove"} => loads[l].netCalls = 0
        /\ loads[l].netCalls <= 1

\* C13: a cache hit serves immediately. When the cache lookup of a load
\* returns a fresh entry of the resolved folder, whatever the length of its
\* photo sequence, that step shows the cached photos and ends the loading
\* state, with the load on the hit path and no foreground request awaited.
C13_HitServesImmediately ==
    [][\A l \in LoadIds :
         (/\ loads[l].pc = "cacheRead" /\ loads'[l].pc # "cacheRead"
          /\ GetCachedPhotos(asyncStorage, loads[l].folder, now).hit)
         => /\ photos' = GetCachedPhotos(asyncStorage, loads[l].folder, now).photos
            /\ ~loading'
            /\ ~refreshing'
            /\ loads'[l].exit = "hit"
            /\ loads'[l].pc # "fetching"]_vars

\* C14: background reconciliation. The step in which the background request
\* of a load that served a cached list resolves replaces the photo list by
\* the fetched result; the step in which its cachePhotos write lands leaves
\* the entry of the load's folder holding that result under the timestamp
\* taken when cachePhotos was called, which is not older than the stamp of
\* the entry that was served.
C14_BackgroundReconciliation ==
    [][\A l \in LoadIds :
         /\ (loads[l].pc = "bgFetching" /\ loads'[l].pc = "bgCaching")
            => /\ loads[l].exit = "hit"
               /\ photos' = loads'[l].fetched
               /\ loads'[l].fetched \in ServerResults(loads[l].folder)
               /\ loads'[l].ts = now
         /\ (loads[l].pc = "bgCaching" /\ loads'[l].pc = "done")
            => /\ GetItem(asyncStorage', CacheKey(loads[l].folder))
                     = StringifyCachedPhotos([photos |-> loads[l].fetched,
                                              timestamp |-> loads[l].ts,
                                              folder |-> loads[l].folder])
               /\ loads[l].ts >= CACHE_EXPIRY_MS - 1
               /\ \A k \in DOMAIN asyncStorage \ {CacheKey(loads[l].folder)} :
                     GetItem(asyncStorage', k) = asyncStorage[k]]_vars

C14_Witness ==
    \E l \in LoadIds :
        /\ loads[l].pc = "done"
        /\ loads[l].exit = "hit"
        /\ loads[l].bg = "ok"
        /\ loads[l].fetched # loads[l].served
        /\ photos = loads[l].fetched
        /\ GetCachedPhotos(asyncStorage, loads[l].folder, now).hit
        /\ GetCachedPhotos(asyncStorage, loads[l].folder, now).photos = loads[l].fetched
        /\ JSONParse(GetItem(asyncStorage, CacheKey(loads[l].folder))).timestamp > 0

\* C15: a foreground failure is loud. The step in which the awaited request
\* of a load rejects ends the load as failed with the message of the raised
\* error shown in the error toast and the loading flags cleared; a load is
\* failed only with a message shown, and a load whose background request
\* failed has shown none.
C15_ForegroundFailureLoud ==
    [][\A l \in LoadIds :
         /\ (loads[l].pc = "fetching" /\ loads'[l].pc = "done")
            => /\ loads'[l].exit = "failed"
               /\ loads'[l].toast \in FetchErrors
               /\ ~loading'
               /\ ~refreshing'
               /\ photos' = photos
         /\ loads'[l].exit = "failed" => loads'[l].toast # ""
         /\ loads'[l].bg = "failed"
            => (loads'[l].exit = "hit" /\ loads'[l].toast = "")]_vars

C15_Witness ==
    /\ loads[1].useCache /\ loads[1].pc = "done" /\ loads[1].exit = "failed"
    /\ loads[1].toast = "Network request failed"
    /\ \E l \in LoadIds :
         /\ ~loads[l].useCache
         /\ loads[l].pc = "done"
         /\ loads[l].exit = "failed"
         /\ loads[l].toast \in FetchErrors
         /\ loads[l].netCalls = 1
    /\ ~loading /\ ~refreshing

(***************************************************************************)
(* The photo list cache called on its own: cachePhotos, getCachedPhotos    *)
(* and clearPhotoCache, each call one step per await and the calls         *)
(* overlapping, under a moving clock. The log of calls is in the order in  *)
(* which the calls returned.                                               *)
(***************************************************************************)
\* The folders of the calls; clearPhotoCache is also called with none.
CacheFolders == {"A", "B"}

\* The photo lists of the cachePhotos calls for a folder.
PutPhotos(folder) ==
    IF folder = "A" THEN {<<>>, <<Photo("A", "2"), Photo("A", "1")>>}
    ELSE {<<Photo("A", "2"), Photo("A", "1")>>}

\* The clock steps: one millisecond, or one millisecond short of the expiry.
ClockSteps == {1, CACHE_EXPIRY_MS - 1}

\* A call that has returned, as the log of calls keeps it: `at` is the clock
\* when a get or a clear returned and the timestamp a put took, `keys` the
\* keys the call wrote or removed.
CacheCall(op, folder, ps, hit, at, keys) ==
    [op |-> op, folder |-> folder, photos |-> ps, hit |-> hit, at |-> at,
     keys |-> keys]

\* A call that waits for the storage: a cachePhotos that took its timestamp
\* and waits for setItem, or a clearPhotoCache() that picked its keys and
\* waits for multiRemove.
PendingCall(op, folder, ps, ts, keys) ==
    [op |-> op, folder |-> folder, photos |-> ps, ts |-> ts, keys |-> keys]

\* The sequence without its i-th element.
Without(seq, i) == SubSeq(seq, 1, i - 1) \o SubSeq(seq, i + 1, Len(seq))

\* cachePhotos(ps, f) is called: Date.now() is read and setItem is started.
CachePutCalled(f, ps) ==
    /\ Len(calls) + Len(cred) < MaxCacheCalls
    /\ cred' = Append(cred, PendingCall("put", f, ps, now, {}))
    /\ UNCHANGED <<storeVars, clockVars, screenVars, calls, up, st, mounted, gw>>

\* cachePhotos(ps, f): setItem resolves and the call returns.
CachePut(f, ps) ==
    /\ \E i \in DOMAIN cred :
          /\ cred[i].op = "put" /\ cred[i].folder = f /\ cred[i].photos = ps
          /\ asyncStorage' = CachePhotos(asyncStorage, ps, f, cred[i].ts)
          /\ calls' = Append(calls, CacheCall("put", f, ps, FALSE, cred[i].ts,
                                           {CacheKey(f)}))
          /\ cred' = Without(cred, i)
    /\ UNCHANGED <<secureStore, secureStoreAvailable, secureEnv, clockVars, screenVars,
                   up, st, mounted, gw>>

\* getCachedPhotos(f): getItem resolves, Date.now() is read and the call
\* returns.
CacheGet(f) ==
    /\ Len(calls) + Len(cred) < MaxCacheCalls
    /\ LET r == GetCachedPhotos(asyncStorage, f, now)
       IN  calls' = Append(calls, CacheCall("get", f, r.photos, r.hit, now, {}))
    /\ UNCHANGED <<storeVars, clockVars, screenVars, cred, up, st, mounted, gw>>

\* clearPhotoCache(f) with no folder, or with the empty string: getAllKeys
\* resolves, the keys are filtered and multiRemove is started.
CacheClearGetAllKeys(f) ==
    /\ ~TruthyString(f)
    /\ Len(calls) + Len(cred) < MaxCacheCalls
    /\ cred' = Append(cred, PendingCall("clear", f, <<>>, 0, CacheKeysOf(asyncStorage)))
    /\ UNCHANGED <<storeVars, clockVars, screenVars, calls, up, st, mounted, gw>>

\* clearPhotoCache(f) returns, f undefined when the argument is left out:
\* with a folder removeItem has resolved, with none multiRemove has resolved
\* for the keys picked before.
CacheClear(f) ==
    /\ IF TruthyString(f)
       THEN /\ Len(calls) + Len(cred) < MaxCacheCalls
            /\ asyncStorage' = MultiRemove(asyncStorage, {CacheKey(f)})
            /\ cred' = cred
            /\ calls' = Append(calls, CacheCall("clear", f, <<>>, FALSE, now,
                                                {CacheKey(f)}))
       ELSE \E i \in DOMAIN cred :
               /\ cred[i].op = "clear" /\ cred[i].folder = f
               /\ asyncStorage' = MultiRemove(asyncStorage, cred[i].keys)
               /\ cred' = Without(cred, i)
               /\ calls' = Append(calls, CacheCall("clear", f, <<>>, FALSE, now,
                                                   cred[i].keys))
    /\ UNCHANGED <<secureStore, secureStoreAvailable, secureEnv, clockVars, screenVars,
                   up, st, mounted, gw>>

\* Time passes between two calls.
CacheTick(d) ==
    /\ ticks < MaxCacheTicks
    /\ now' = now + d
    /\ ticks' = ticks + 1
    /\ UNCHANGED <<storeVars, screenVars, otherVars>>

\* The storage holds the credentials of both tiers and no cache entry.
InitCacheCalls ==
    /\ asyncStorage = MapOf(StoredCredentials("A") \cup FallbackPair("key1", "secret1"))
    /\ secureStore = EmptyMap
    /\ secureStoreAvailable = "null"
    /\ secureEnv = "unavailable"
    /\ now = 0
    /\ ticks = 0
    /\ photos = <<>>
    /\ loading = TRUE
    /\ refreshing = FALSE
    /\ loads = [l \in LoadIds |-> IdleLoad]
    /\ calls = <<>>
    /\ cred = <<>>
    /\ up = IdleUpload
    /\ st = IdleSettings
    /\ mounted = TRUE
    /\ gw = IdleSearch

NextCache ==
    \/ \E f \in CacheFolders : \E ps \in PutPhotos(f) : CachePutCalled(f, ps)
    \/ \E f \in CacheFolders : \E ps \in PutPhotos(f) : CachePut(f, ps)
    \/ \E f \in CacheFolders : CacheGet(f)
    \/ CacheClearGetAllKeys(Undefined)
    \/ \E f \in {"A", Undefined} : CacheClear(f)
    \/ \E d \in ClockSteps : CacheTick(d)

SpecCache == InitCacheCalls /\ [][NextCache]_vars

\* The calls before call i that wrote or removed the entry of folder f: the
\* puts for f, and the clears whose keys hold the key of f.
Touches(j, f) == calls[j].op \in {"put", "clear"} /\ CacheKey(f) \in calls[j].keys

LastTouch(i, f) ==
    LET js == {j \in 1..(i - 1) : Touches(j, f)}
    IN  IF js = {} THEN 0 ELSE CHOOSE j \in js : \A k \in js : k <= j

\* C5: cache round trip. A get that comes right after a put for the same
\* folder, before the entry is 5 minutes old, is a hit and returns exactly the
\* photo sequence of that put, the empty sequence included.
C5_RoundTrip ==
    \A i \in 1..(Len(calls) - 1) :
        (/\ calls[i].op = "put"
         /\ calls[i + 1].op = "get"
         /\ calls[i + 1].folder = calls[i].folder
         /\ calls[i + 1].at - calls[i].at < 300000)
        => (calls[i + 1].hit /\ calls[i + 1].photos = calls[i].photos)

C5_Witness ==
    \E i \in 1..(Len(calls) - 2) :
        /\ calls[i].op = "put" /\ calls[i].folder = "A" /\ calls[i].photos # <<>>
        /\ calls[i + 1].op = "put" /\ calls[i + 1].folder = "A"
        /\ calls[i + 1].photos = <<>>
        /\ calls[i + 2].op = "get" /\ calls[i + 2].folder = "A"
        /\ calls[i + 2].hit /\ calls[i + 2].photos = <<>>

\* C6: TTL boundary. A get for a folder whose entry was last written by a put
\* is a hit returning the photos of that put exactly when the entry is less
\* than 5 minutes old at the get; and no get changes the storage, so the
\* expired entry stays.
C6_TtlBoundary ==
    [][(Len(calls') = Len(calls) + 1 /\ calls'[Len(calls')].op = "get")
       => LET i == Len(calls')
              g == calls'[i]
              j == LastTouch(i, g.folder)
          IN  /\ asyncStorage' = asyncStorage
              /\ (j > 0 /\ calls[j].op = "put")
                 => /\ g.hit <=> (g.at - calls[j].at < 300000)
                    /\ g.hit => g.photos = calls[j].photos
                    /\ CacheKey(g.folder) \in DOMAIN asyncStorage']_vars

C6_Witness ==
    /\ Len(calls) = 3
    /\ calls[1].op = "put" /\ calls[1].folder = "A"
    /\ calls[2].op = "get" /\ calls[2].folder = "A"
    /\ calls[2].at - calls[1].at = 299999 /\ calls[2].hit
    /\ calls[3].op = "get" /\ calls[3].folder = "A"
    /\ calls[3].at - calls[1].at = 300000 /\ ~calls[3].hit
    /\ CacheKey("A") \in DOMAIN asyncStorage

\* C7: folder isolation. A get for folder Y is a hit only when the last call
\* that wrote or removed the entry of Y is a put for Y, whose photos it
\* returns; puts for other folders never make it a hit.
C7_FolderIsolation ==
    \A i \in 1..Len(calls) :
        (calls[i].op = "get" /\ calls[i].hit)
        => LET j == LastTouch(i, calls[i].folder)
           IN  /\ j > 0
               /\ calls[j].op = "put"
               /\ calls[j].folder = calls[i].folder
               /\ calls[i].photos = calls[j].photos

C7_Witness ==
    \E i \in 1..(Len(calls) - 1) :
        /\ calls[i].op = "put" /\ calls[i].folder = "A" /\ calls[i].photos # <<>>
        /\ calls[i + 1].op = "get" /\ calls[i + 1].folder = "B"
        /\ ~calls[i + 1].hit
        /\ CacheKey("A") \in DOMAIN asyncStorage
        /\ CacheKey("B") \notin DOMAIN asyncStorage

(***************************************************************************)
(* The upload screen from its mount on: the image is picked, the form is   *)
(* edited and the upload button is pressed, a second press being possible  *)
(* until the first run has set uploading; for every stored credential set. *)
(* With no display credentials stored the screen shows no form. The "Go to *)
(* Settings" buttons only navigate and are left out.                       *)
(***************************************************************************)
\* The texts typed into the description field and into the tags field: the
\* tags with two tags, with separators and spaces only, with an em space
\* (U+2003) only, with a tag followed by a byte order mark (U+FEFF), with a
\* tag between a no-break space and an ideographic space.
UploadDescriptions == {"", "a cat"}
UploadTagTexts ==
    {<<>>, Units("cat, pet"), Units(" , "), <<8195>>, Units("pet,") \o <<65279>>,
     <<160>> \o Units("cat") \o <<12288>>}

InitUpload ==
    /\ \E d \in {{}, StoredCredentials("A")}, s \in InitSecret :
          /\ asyncStorage = MapOf(d \cup s.fallback)
          /\ secureStore = MapOf(s.secure)
          /\ secureEnv = s.env
    /\ secureStoreAvailable = "null"
    /\ now = 0
    /\ ticks = 0
    /\ photos = <<>>
    /\ loading = TRUE
    /\ refreshing = FALSE
    /\ loads = [l \in LoadIds |-> IdleLoad]
    /\ calls = <<>>
    /\ cred = <<>>
    /\ up = [IdleUpload EXCEPT !.mount = "creds"]
    /\ st = IdleSettings
    /\ mounted = TRUE
    /\ gw = IdleSearch

NextUpload ==
    \/ CheckCredentials
    \/ PickImage
    \/ \E status \in {"granted", "denied"} : PickPermission(status)
    \/ \E result \in {"asset", "canceled", "unreadable"} : PickResult(result)
    \/ \E text \in UploadDescriptions : UploadChangeText("description", text)
    \/ \E text \in UploadTagTexts : UploadChangeText("tags", text)
    \/ HandleUpload
    \/ \E i \in UploadRunIds : UploadGetCredentials(i)
    \/ \E i \in UploadRunIds, uploadResult \in UploadResults :
          UploadResolves(i, uploadResult)
    \/ \E i \in UploadRunIds : UploadRejects(i, "Upload failed with status 400")
    \/ \E i \in UploadRunIds : UploadProbeResolve(i)
    \/ \E i \in UploadRunIds : UploadReadKey(i)
    \/ \E i \in UploadRunIds : UploadGetApiCredentials(i)
    \/ \E i \in UploadRunIds : MetadataResolves(i)
    \/ \E i \in UploadRunIds : MetadataRejects(i)

SpecUpload == InitUpload /\ [][NextUpload]_vars

\* C8: upload/metadata independence. The step in which the metadata update
\* of a handleUpload run raises is taken after the upload of that run has
\* resolved and ends the run in success: it shows the success toast, resets
\* the form, navigates to the gallery, clears uploading and shows no error
\* toast and no alert; and the run stays as it has ended.
C8_MetadataIndependence ==
    [][\A i \in DOMAIN up.runs :
          /\ (up.runs[i].metaOutcome = "none" /\ up'.runs[i].metaOutcome = "raised")
             => /\ up.runs[i].uploadOutcome = "resolved"
                /\ up.runs[i].metaCalls = 1
                /\ up'.runs[i].pc = "done"
                /\ up'.runs[i].exit = "success"
                /\ up'.toast = [kind |-> "success",
                                message |-> "Image uploaded successfully!"]
                /\ ~up'.selectedImage /\ up'.description = "" /\ up'.tags = <<>>
                /\ up'.navigations = up.navigations + 1
                /\ ~up'.uploading
                /\ up'.errorToasts = up.errorToasts
                /\ up'.alerts = up.alerts
          /\ up.runs[i].metaOutcome = "raised" => up'.runs[i] = up.runs[i]]_vars

C8_Witness ==
    \E i \in DOMAIN up.runs :
       /\ up.runs[i].metaOutcome = "raised"
       /\ up.runs[i].uploadCalls = 1
       /\ up.runs[i].metaCalls = 1
       /\ up.runs[i].publicId = "Modeling/img1"
       /\ up.runs[i].exit = "success"
       /\ up.toast.kind = "success"
       /\ up.navigations > 0

\* A description or a tag was supplied to a run: the description is not
\* empty, or the tags text holds a code unit that is neither a comma nor
\* white space.
Supplied(run) ==
    \/ run.description # ""
    \/ \E k \in DOMAIN run.tags : run.tags[k] # 44 /\ run.tags[k] \notin WhiteSpace

\* The secret pair is stored in the backend the probe selects.
SecretPresent ==
    GetCloudinaryApiCredentials(ProbeResult(secureEnv), asyncStorage, secureStore)
        # Null

\* C21 as stated: the metadata call of a run is issued exactly when its upload
\* resolved, a description or a tag was supplied and the secret pair is
\* stored.
C21_AsStated ==
    \A i \in DOMAIN up.runs :
       up.runs[i].pc \in {"metadata", "done"}
       => (up.runs[i].metaCalls = 1
           <=> /\ up.runs[i].uploadOutcome = "resolved"
               /\ Supplied(up.runs[i])
               /\ SecretPresent)

\* C21: metadata write-through condition. A handleUpload run issues the
\* metadata call at most once, and it has issued it exactly when it is past
\* the credential read, its upload resolved with a public id, a description
\* or a tag was supplied and the secret pair is stored; a run whose upload
\* resolved with a public id while the secret pair is absent ends in success
\* with no call, and a run whose upload rejected ends in failure with no call.
C21_MetadataCondition ==
    \A i \in DOMAIN up.runs :
       LET run == up.runs[i]
       IN  /\ run.metaCalls \in {0, 1}
           /\ run.metaCalls = 1
              <=> /\ run.pc \in {"metadata", "done"}
                  /\ run.uploadOutcome = "resolved"
                  /\ run.publicId # Undefined /\ run.publicId # ""
                  /\ Supplied(run)
                  /\ SecretPresent
           /\ (/\ run.pc = "done"
               /\ run.uploadOutcome = "resolved"
               /\ run.publicId # Undefined
               /\ ~SecretPresent)
              => (run.exit = "success" /\ run.metaCalls = 0)
           /\ run.uploadOutcome = "rejected"
              => (run.pc = "done" /\ run.exit = "failed" /\ run.metaCalls = 0)

\* The tags text is a tag followed by a byte order mark, the description is
\* empty, the secret pair is stored: the call is issued.
C21_Witness ==
    \E i \in DOMAIN up.runs :
       /\ up.runs[i].pc = "metadata"
       /\ up.runs[i].metaCalls = 1
       /\ up.runs[i].uploadCalls = 1
       /\ up.runs[i].publicId = "Modeling/img1"
       /\ up.runs[i].description = ""
       /\ up.runs[i].tags = Units("pet,") \o <<65279>>

(***************************************************************************)
(* The credential store called on its own: getCloudinaryApiCredentials,    *)
(* saveCloudinaryApiCredentials and clearCloudinaryCredentials, one call   *)
(* after the other, each call one step per await.                          *)
(***************************************************************************)
NewCredCall(op, k, s) ==
    [op |-> op, pc |-> IF op = "clear" THEN "removeCredentials" ELSE "probe",
     apiKey |-> k, apiSecret |-> s, use |-> "null", probed |-> FALSE,
     status |-> "pending", result |-> Null]

\* The pairs handleSave passes: it saves only when both fields are filled in.
SavedPairs == {<<"key1", "secret1">>, <<"key2", "secret2">>}

credFrame == <<clockVars, screenVars, calls, up, st, mounted, gw>>

CredIds == 1..MaxCredCalls

\* A call is made once the call before it has returned.
CredStart(op, k, s) ==
    /\ Len(cred) < MaxCredCalls
    /\ \A i \in DOMAIN cred : cred[i].pc = "done"
    /\ cred' = Append(cred, NewCredCall(op, k, s))
    /\ UNCHANGED <<storeVars, credFrame>>

\* isSecureStoreAvailable is called: with the flag set it returns the flag,
\* with the flag null it calls SecureStore.isAvailableAsync and waits.
CredProbeStart(i) ==
    /\ i \in DOMAIN cred
    /\ cred[i].pc = "probe"
    /\ cred' = [cred EXCEPT ![i] =
           IF secureStoreAvailable = "null"
           THEN [@ EXCEPT !.pc = "probing", !.probed = TRUE]
           ELSE [@ EXCEPT !.use = secureStoreAvailable,
                          !.pc = AfterProbe(cred[i].op, secureStoreAvailable)]]
    /\ UNCHANGED <<storeVars, credFrame>>

\* The probe resolves or throws: the flag is assigned and returned.
CredProbeResolve(i) ==
    /\ i \in DOMAIN cred
    /\ cred[i].pc = "probing"
    /\ secureStoreAvailable' = ProbeResult(secureEnv)
    /\ cred' = [cred EXCEPT ![i] =
           [@ EXCEPT !.use = secureStoreAvailable',
                     !.pc = AfterProbe(cred[i].op, secureStoreAvailable')]]
    /\ UNCHANGED <<asyncStorage, secureStore, secureEnv, credFrame>>

\* getCloudinaryApiCredentials, secure backend: SecureStore.getItemAsync(API_KEY_KEY).
CredReadKey(i) ==
    /\ i \in DOMAIN cred
    /\ cred[i].pc = "readKey"
    /\ cred' = [cred EXCEPT ![i] =
           [@ EXCEPT !.pc = "readSecret",
                     !.apiKey = PlainString(GetItem(secureStore, API_KEY_KEY))]]
    /\ UNCHANGED <<storeVars, credFrame>>

\* getCloudinaryApiCredentials, secure backend: the second read and the result.
CredReadSecret(i) ==
    /\ i \in DOMAIN cred
    /\ cred[i].pc = "readSecret"
    /\ LET s == PlainString(GetItem(secureStore, API_SECRET_KEY))
       IN  cred' = [cred EXCEPT ![i] =
               [@ EXCEPT !.pc = "done", !.status = "ok", !.apiSecret = s,
                         !.result = ApiCredentialsOf(cred[i].apiKey, s)]]
    /\ UNCHANGED <<storeVars, credFrame>>

\* getCloudinaryApiCredentials, fallback backend: AsyncStorage.multiGet and the result.
CredMultiGet(i) ==
    /\ i \in DOMAIN cred
    /\ cred[i].pc = "multiGet"
    /\ LET k == PlainString(GetItem(asyncStorage, FALLBACK_API_KEY_KEY))
           s == PlainString(GetItem(asyncStorage, FALLBACK_API_SECRET_KEY))
       IN  cred' = [cred EXCEPT ![i] =
               [@ EXCEPT !.pc = "done", !.status = "ok", !.apiKey = k,
                         !.apiSecret = s, !.result = ApiCredentialsOf(k, s)]]
    /\ UNCHANGED <<storeVars, credFrame>>

\* saveCloudinaryApiCredentials, secure backend: SecureStore.setItemAsync(API_KEY_KEY, apiKey).
CredWriteKey(i) ==
    /\ i \in DOMAIN cred
    /\ cred[i].pc = "writeKey"
    /\ secureStore' = SetItem(secureStore, API_KEY_KEY, Str(cred[i].apiKey))
    /\ cred' = [cred EXCEPT ![i] = [@ EXCEPT !.pc = "writeSecret"]]
    /\ UNCHANGED <<asyncStorage, secureStoreAvailable, secureEnv, credFrame>>

\* saveCloudinaryApiCredentials, secure backend: the second write.
CredWriteSecret(i) ==
    /\ i \in DOMAIN cred
    /\ cred[i].pc = "writeSecret"
    /\ secureStore' = SetItem(secureStore, API_SECRET_KEY, Str(cred[i].apiSecret))
    /\ cred' = [cred EXCEPT ![i] = [@ EXCEPT !.pc = "done", !.status = "ok"]]
    /\ UNCHANGED <<asyncStorage, secureStoreAvailable, secureEnv, credFrame>>

\* saveCloudinaryApiCredentials, fallback backend: AsyncStorage.multiSet.
CredMultiSet(i) ==
    /\ i \in DOMAIN cred
    /\ cred[i].pc = "multiSet"
    /\ asyncStorage' = SetItem(SetItem(asyncStorage, FALLBACK_API_KEY_KEY,
                                       Str(cred[i].apiKey)),
                               FALLBACK_API_SECRET_KEY, Str(cred[i].apiSecret))
    /\ cred' = [cred EXCEPT ![i] = [@ EXCEPT !.pc = "done", !.status = "ok"]]
    /\ UNCHANGED <<secureStore, secureStoreAvailable, secureEnv, credFrame>>

\* clearCloudinaryCredentials: AsyncStorage.removeItem(CLOUDINARY_CREDENTIALS_KEY).
CredRemoveCredentials(i) ==
    /\ i \in DOMAIN cred
    /\ cred[i].pc = "removeCredentials"
    /\ asyncStorage' = MultiRemove(asyncStorage, {CLOUDINARY_CREDENTIALS_KEY})
    /\ cred' = [cred EXCEPT ![i] = [@ EXCEPT !.pc = "probe"]]
    /\ UNCHANGED <<secureStore, secureStoreAvailable, secureEnv, credFrame>>

\* clearCloudinaryCredentials, secure backend: SecureStore.deleteItemAsync(API_KEY_KEY).
CredDeleteKey(i) ==
    /\ i \in DOMAIN cred
    /\ cred[i].pc = "deleteKey"
    /\ secureStore' = MultiRemove(secureStore, {API_KEY_KEY})
    /\ cred' = [cred EXCEPT ![i] = [@ EXCEPT !.pc = "deleteSecret"]]
    /\ UNCHANGED <<asyncStorage, secureStoreAvailable, secureEnv, credFrame>>

\* clearCloudinaryCredentials, secure backend: the second delete.
CredDeleteSecret(i) ==
    /\ i \in DOMAIN cred
    /\ cred[i].pc = "deleteSecret"
    /\ secureStore' = MultiRemove(secureStore, {API_SECRET_KEY})
    /\ cred' = [cred EXCEPT ![i] = [@ EXCEPT !.pc = "done", !.status = "ok"]]
    /\ UNCHANGED <<asyncStorage, secureStoreAvailable, secureEnv, credFrame>>

\* clearCloudinaryCredentials, fallback backend: AsyncStorage.multiRemove.
CredMultiRemove(i) ==
    /\ i \in DOMAIN cred
    /\ cred[i].pc = "multiRemove"
    /\ asyncStorage' = MultiRemove(asyncStorage, FallbackKeys)
    /\ cred' = [cred EXCEPT ![i] = [@ EXCEPT !.pc = "done", !.status = "ok"]]
    /\ UNCHANGED <<secureStore, secureStoreAvailable, secureEnv, credFrame>>

\* What the two backends may hold when the process starts: nothing, a pair,
\* one value of a pair, or a pair with an empty secret.
InitCred ==
    /\ \E f \in {{}, FallbackPair("key9", "secret9"),
                 {<<FALLBACK_API_SECRET_KEY, Str("secret9")>>}} :
          asyncStorage = MapOf(StoredCredentials("A") \cup f)
    /\ \E c \in {{}, SecurePair("key0", "secret0"), {<<API_KEY_KEY, Str("key0")>>},
                 SecurePair("key0", "")} :
          secureStore = MapOf(c)
    /\ secureEnv \in {"available", "unavailable", "throws"}
    /\ secureStoreAvailable = "null"
    /\ now = 0
    /\ ticks = 0
    /\ photos = <<>>
    /\ loading = TRUE
    /\ refreshing = FALSE
    /\ loads = [l \in LoadIds |-> IdleLoad]
    /\ calls = <<>>
    /\ cred = <<>>
    /\ up = IdleUpload
    /\ st = IdleSettings
    /\ mounted = TRUE
    /\ gw = IdleSearch

NextCred ==
    \/ CredStart("get", Undefined, Undefined)
    \/ \E p \in SavedPairs : CredStart("save", p[1], p[2])
    \/ CredStart("clear", Undefined, Undefined)
    \/ \E i \in CredIds : CredProbeStart(i)
    \/ \E i \in CredIds : CredProbeResolve(i)
    \/ \E i \in CredIds : CredReadKey(i)
    \/ \E i \in CredIds : CredReadSecret(i)
    \/ \E i \in CredIds : CredMultiGet(i)
    \/ \E i \in CredIds : CredWriteKey(i)
    \/ \E i \in CredIds : CredWriteSecret(i)
    \/ \E i \in CredIds : CredMultiSet(i)
    \/ \E i \in CredIds : CredRemoveCredentials(i)
    \/ \E i \in CredIds : CredDeleteKey(i)
    \/ \E i \in CredIds : CredDeleteSecret(i)
    \/ \E i \in CredIds : CredMultiRemove(i)

SpecCred == InitCred /\ [][NextCred]_vars

\* The string stored under key k of backend m, or undefined.
StoredString(m, k) == PlainString(GetItem(m, k))

\* C9: secret storage tier isolation. On a platform whose secure backend is
\* reported unavailable, or whose probe throws, no step changes the secure
\* backend, and a save followed by a get returns the saved pair, which is what
\* the fallback keys hold; on a platform whose secure backend is available no
\* step changes the fallback keys, and the get returns the saved pair from the
\* secure keys.
C9_TierIsolation ==
    [][/\ secureEnv # "available" => secureStore' = secureStore
       /\ secureEnv = "available"
          => \A k \in FallbackKeys : GetItem(asyncStorage', k) = GetItem(asyncStorage, k)
       /\ \A i \in 1..(Len(cred') - 1) :
             (/\ i + 1 = Len(cred')
              /\ cred'[i].op = "save" /\ cred'[i].status = "ok"
              /\ cred'[i + 1].op = "get" /\ cred'[i + 1].pc = "done")
             => /\ cred'[i + 1].result =
                      [apiKey |-> cred'[i].apiKey, apiSecret |-> cred'[i].apiSecret]
                /\ secureEnv # "available"
                   => /\ StoredString(asyncStorage', FALLBACK_API_KEY_KEY)
                            = cred'[i].apiKey
                      /\ StoredString(asyncStorage', FALLBACK_API_SECRET_KEY)
                            = cred'[i].apiSecret
                /\ secureEnv = "available"
                   => /\ StoredString(secureStore', API_KEY_KEY) = cred'[i].apiKey
                      /\ StoredString(secureStore', API_SECRET_KEY)
                            = cred'[i].apiSecret]_vars

C9_Witness ==
    /\ secureEnv = "throws"
    /\ Len(cred) = 2
    /\ cred[1].op = "save" /\ cred[1].status = "ok" /\ cred[1].apiKey = "key2"
    /\ cred[2].op = "get" /\ cred[2].pc = "done"
    /\ cred[2].result = [apiKey |-> "key2", apiSecret |-> "secret2"]
    /\ StoredString(asyncStorage, FALLBACK_API_KEY_KEY) = "key2"
    /\ API_KEY_KEY \notin DOMAIN secureStore
    /\ API_SECRET_KEY \notin DOMAIN secureStore

\* The backend the probe selects on this platform.
ChosenString(key, fallbackKey) ==
    IF secureEnv = "available" THEN StoredString(secureStore, key)
    ELSE StoredString(asyncStorage, fallbackKey)

\* C10: a get that has just returned gives the pair held by the backend the
\* probe selects when that backend holds a non-empty key and a non-empty
\* secret, and absent otherwise, whatever the other backend holds.
C10_BothOrAbsent ==
    (Len(cred) > 0 /\ cred[Len(cred)].op = "get" /\ cred[Len(cred)].pc = "done")
    => LET k == ChosenString(API_KEY_KEY, FALLBACK_API_KEY_KEY)
           s == ChosenString(API_SECRET_KEY, FALLBACK_API_SECRET_KEY)
           r == cred[Len(cred)].result
       IN  IF k \notin {Undefined, ""} /\ s \notin {Undefined, ""}
           THEN r = [apiKey |-> k, apiSecret |-> s]
           ELSE r = Null

C10_Witness ==
    /\ Len(cred) = 1 /\ cred[1].op = "get" /\ cred[1].pc = "done"
    /\ cred[1].result = Null
    /\ secureEnv = "available"
    /\ StoredString(secureStore, API_KEY_KEY) = "key0"
    /\ StoredString(secureStore, API_SECRET_KEY) \in {Undefined, ""}
    /\ StoredString(asyncStorage, FALLBACK_API_KEY_KEY) = "key9"
    /\ StoredString(asyncStorage, FALLBACK_API_SECRET_KEY) = "secret9"

\* C17: clearAll removes the credentials from every backend. When
\* clearCloudinaryCredentials has just returned, with no backend call having
\* failed, the display credentials and the secret pair read as absent and
\* neither the secure keys nor the fallback keys hold a value.
C17_ClearRemovesEverywhere ==
    (Len(cred) > 0 /\ cred[Len(cred)].op = "clear" /\ cred[Len(cred)].pc = "done")
    => /\ GetCloudinaryCredentials(asyncStorage) = Null
       /\ GetCloudinaryApiCredentials(secureStoreAvailable, asyncStorage,
                                      secureStore) = Null
       /\ API_KEY_KEY \notin DOMAIN secureStore
       /\ API_SECRET_KEY \notin DOMAIN secureStore
       /\ FALLBACK_API_KEY_KEY \notin DOMAIN asyncStorage
       /\ FALLBACK_API_SECRET_KEY \notin DOMAIN asyncStorage

(***************************************************************************)
(* The credential store under overlapping calls and failing backend calls: *)
(* the screens call it from independent asynchronous tasks (loadPhotos,    *)
(* loadCredentials, handleSave, handleClear), so a call may start while    *)
(* another one is suspended at an await, and any backend call may reject.  *)
(***************************************************************************)
MaxRaceCalls == 2

\* The steps of a call that are one backend call each.
BackendPcs ==
    {"readKey", "readSecret", "multiGet", "writeKey", "writeSecret", "multiSet",
     "removeCredentials", "deleteKey", "deleteSecret", "multiRemove",
     "getItem", "cacheGetItem", "cacheSetItem", "cacheRemoveItem",
     "cacheGetAllKeys", "cacheMultiRemove"}

\* A mutant of CatchOutcome: every catch block rethrows.
CatchOutcomeAllRaised(op) == "raised"

\* A mutant of CatchOutcome: every catch block swallows the error.
CatchOutcomeAllSwallowed(op) == "recovered"

\* What the catch block of a storage function does with the error: the save
\* functions throw a new Error, the others log and return.
CatchOutcome(op) == IF op \in {"save", "saveDisplay"} THEN "raised" ELSE "recovered"

\* What a function returns for "absent".
Absent(op) == IF op = "cacheGet" THEN NoPhotos ELSE Null

\* The call ends in the catch block of its function.
Caught(c) ==
    [c EXCEPT !.pc = "done", !.status = CatchOutcome(c.op), !.result = Absent(c.op)]

\* A call is made, whether or not the earlier calls have returned.
CredCall(op, k, s) ==
    /\ Len(cred) < MaxRaceCalls
    /\ cred' = Append(cred, NewCredCall(op, k, s))
    /\ UNCHANGED <<storeVars, credFrame>>

\* The backend call a call is suspended at rejects: the backend is left as it
\* is and the catch block of the function runs.
CredCatch(i) ==
    /\ i \in DOMAIN cred
    /\ cred[i].pc \in BackendPcs
    /\ cred' = [cred EXCEPT ![i] = Caught(cred[i])]
    /\ UNCHANGED <<storeVars, credFrame>>

\* The platform and what an earlier session saved in the backend it selects.
InitRace ==
    /\ \/ /\ secureEnv = "available"
          /\ secureStore \in {EmptyMap, MapOf(SecurePair("key0", "secret0"))}
          /\ asyncStorage = MapOf(StoredCredentials("A"))
       \/ /\ secureEnv \in {"unavailable", "throws"}
          /\ secureStore = EmptyMap
          /\ asyncStorage \in
               {MapOf(StoredCredentials("A")),
                MapOf(StoredCredentials("A") \cup FallbackPair("key9", "secret9"))}
    /\ secureStoreAvailable = "null"
    /\ now = 0
    /\ ticks = 0
    /\ photos = <<>>
    /\ loading = TRUE
    /\ refreshing = FALSE
    /\ loads = [l \in LoadIds |-> IdleLoad]
    /\ calls = <<>>
    /\ cred = <<>>
    /\ up = IdleUpload
    /\ st = IdleSettings
    /\ mounted = TRUE
    /\ gw = IdleSearch

NextRace ==
    \/ CredCall("get", Undefined, Undefined)
    \/ \E p \in SavedPairs : CredCall("save", p[1], p[2])
    \/ CredCall("clear", Undefined, Undefined)
    \/ \E i \in CredIds : CredCatch(i)
    \/ \E i \in CredIds : CredProbeStart(i)
    \/ \E i \in CredIds : CredProbeResolve(i)
    \/ \E i \in CredIds : CredReadKey(i)
    \/ \E i \in CredIds : CredReadSecret(i)
    \/ \E i \in CredIds : CredMultiGet(i)
    \/ \E i \in CredIds : CredWriteKey(i)
    \/ \E i \in CredIds : CredWriteSecret(i)
    \/ \E i \in CredIds : CredMultiSet(i)
    \/ \E i \in CredIds : CredRemoveCredentials(i)
    \/ \E i \in CredIds : CredDeleteKey(i)
    \/ \E i \in CredIds : CredDeleteSecret(i)
    \/ \E i \in CredIds : CredMultiRemove(i)

SpecRace == InitRace /\ [][NextRace]_vars

\* The pairs that one save wrote: the ones of the earlier session and the
\* ones the calls pass.
WholePairs == SavedPairs \cup {<<"key0", "secret0">>, <<"key9", "secret9">>}

\* C11: secret pair atomicity. A get that returned a pair returned the key
\* and the secret of one and the same save.
C11_PairAtomicity ==
    \A i \in DOMAIN cred :
        (cred[i].op = "get" /\ cred[i].pc = "done" /\ cred[i].result # Null)
        => <<cred[i].result.apiKey, cred[i].result.apiSecret>> \in WholePairs

\* C12: one-time probe. At most one call has invoked
\* SecureStore.isAvailableAsync, and all the calls that have chosen a backend
\* have chosen the same one.
C12_ProbeOnce ==
    /\ Cardinality({i \in DOMAIN cred : cred[i].probed}) <= 1
    /\ \A i, j \in DOMAIN cred :
          (cred[i].use # "null" /\ cred[j].use # "null") => cred[i].use = cred[j].use

(***************************************************************************)
(* app/(tabs)/settings.tsx: loadCredentials, the text fields, handleSave   *)
(* and handleClear, with the gallery being mounted.                       *)
(***************************************************************************)
MaxSettingsOps == 2
MaxTyped == 2

\* The text fields of the form, and the texts the user may put into each.
FormFields == {"cloudName", "uploadPreset", "folder", "apiKey", "apiSecret"}

TypedTexts(field) ==
    IF field = "cloudName" THEN {"demo2"}
    ELSE IF field = "uploadPreset" THEN {"preset2"}
    ELSE IF field = "folder" THEN {""}
    ELSE IF field = "apiKey" THEN {"key1"}
    ELSE {"secret1"}

\* The values of the five fields in the render a handler was created in.
FormOf(s) ==
    [cloudName |-> s.cloudName, uploadPreset |-> s.uploadPreset, folder |-> s.folder,
     apiKey |-> s.apiKey, apiSecret |-> s.apiSecret]

\* The credentials object handleSave builds from the form.
FormCredentials(s) ==
    [cloudName |-> s.cloudName, uploadPreset |-> s.uploadPreset,
     folder |-> IF TruthyString(s.folder) THEN s.folder ELSE DEFAULT_FOLDER]

\* if (apiKey && apiSecret)
SavesSecret(s) == TruthyString(s.apiKey) /\ TruthyString(s.apiSecret)

\* handleSave past its awaits with no error: setHasCredentials(true), the
\* success toast, and the finally block.
SaveSucceeded(s) ==
    [s EXCEPT !.pc = "idle", !.hasCredentials = TRUE, !.toast = "success",
              !.loading = FALSE, !.saved = EmptyForm]

\* handleSave's catch block: the error toast, and the finally block.
SaveFailed(s) ==
    [s EXCEPT !.pc = "idle", !.toast = "error", !.loading = FALSE,
              !.saved = EmptyForm]

\* handleSave after saveCloudinaryCredentials has returned normally: the
\* secret pair is saved when both fields were filled in.
SaveContinue(s) ==
    IF SavesSecret(s.saved)
    THEN [s EXCEPT !.pc = "saveSecret", !.call = Len(cred) + 1]
    ELSE SaveSucceeded(s)

settingsFrame == <<clockVars, screenVars, calls, up, mounted, gw>>

\* loadCredentials, first await: getCloudinaryCredentials resolves, the three
\* display fields and hasCredentials are set when credentials are stored, and
\* getCloudinaryApiCredentials is called and runs up to its first await.
LoadCredentialsGetItem ==
    /\ st.load = "creds"
    /\ LET creds == GetCloudinaryCredentials(asyncStorage)
           s == [st EXCEPT !.load = FirstWait(secureStoreAvailable)]
       IN  st' = IF creds = Null THEN s
                 ELSE [s EXCEPT !.cloudName = Field(creds, "cloudName"),
                                !.uploadPreset = Field(creds, "uploadPreset"),
                                !.folder = ResolveFolder(creds),
                                !.hasCredentials = TRUE]
    /\ UNCHANGED <<storeVars, settingsFrame, cred>>

\* getCloudinaryApiCredentials called by loadCredentials:
\* SecureStore.isAvailableAsync resolves or throws, the flag is assigned and
\* the first read is started.
LoadCredentialsProbe ==
    /\ st.load = "probing"
    /\ secureStoreAvailable' = ProbeResult(secureEnv)
    /\ st' = [st EXCEPT !.load = AfterProbe("get", secureStoreAvailable')]
    /\ UNCHANGED <<asyncStorage, secureStore, secureEnv, settingsFrame, cred>>

\* getCloudinaryApiCredentials called by loadCredentials, secure backend:
\* SecureStore.getItemAsync(API_KEY_KEY) resolves, the second read is started.
LoadCredentialsReadKey ==
    /\ st.load = "readKey"
    /\ st' = [st EXCEPT !.load = "readSecret"]
    /\ UNCHANGED <<storeVars, settingsFrame, cred>>

\* The last read of getCloudinaryApiCredentials resolves: loadCredentials
\* does nothing with the pair and returns.
LoadCredentialsLastRead ==
    /\ st.load \in {"readSecret", "multiGet"}
    /\ st' = [st EXCEPT !.load = "done"]
    /\ UNCHANGED <<storeVars, settingsFrame, cred>>

\* onChangeText of one of the five inputs: the state of the field is set to
\* the text. The inputs are never disabled.
OnChangeText(field, text) ==
    /\ st.load # "none"
    /\ st[field] # text
    /\ st.typed < MaxTyped
    /\ st' = [st EXCEPT ![field] = text, !.typed = @ + 1]
    /\ UNCHANGED <<storeVars, settingsFrame, cred>>

\* Save is pressed, which the button allows while loading is false: the
\* required-fields test, setLoading(true) and the call of
\* saveCloudinaryCredentials with the credentials built from the fields.
HandleSave ==
    /\ st.load # "none"
    /\ ~st.loading
    /\ st.ops < MaxSettingsOps
    /\ LET s == [st EXCEPT !.ops = @ + 1, !.displaySave = "none", !.call = 0]
       IN  st' = IF ~TruthyString(st.cloudName) \/ ~TruthyString(st.uploadPreset)
                 THEN [s EXCEPT !.toast = "warning"]
                 ELSE [s EXCEPT !.pc = "saveDisplay", !.loading = TRUE,
                                !.saved = FormOf(st), !.displaySave = "pending"]
    /\ UNCHANGED <<storeVars, settingsFrame, cred>>

\* saveCloudinaryCredentials: AsyncStorage.setItem resolves.
SaveDisplayWritten ==
    /\ st.pc = "saveDisplay"
    /\ asyncStorage' = SetItem(asyncStorage, CLOUDINARY_CREDENTIALS_KEY,
                               JSONStringify(FormCredentials(st.saved)))
    /\ st' = SaveContinue([st EXCEPT !.displaySave = "ok"])
    /\ cred' = IF SavesSecret(st.saved)
               THEN Append(cred, NewCredCall("save", st.saved.apiKey,
                                             st.saved.apiSecret))
               ELSE cred
    /\ UNCHANGED <<secureStore, secureStoreAvailable, secureEnv, settingsFrame>>

\* saveCloudinaryCredentials: AsyncStorage.setItem rejects and the catch block
\* of the function runs.
SaveDisplayFails ==
    /\ st.pc = "saveDisplay"
    /\ LET outcome == CatchOutcome("saveDisplay")
           s == [st EXCEPT !.displaySave = outcome]
       IN  /\ st' = IF outcome = "raised" THEN SaveFailed(s) ELSE SaveContinue(s)
           /\ cred' = IF outcome # "raised" /\ SavesSecret(st.saved)
                      THEN Append(cred, NewCredCall("save", st.saved.apiKey,
                                                    st.saved.apiSecret))
                      ELSE cred
    /\ UNCHANGED <<storeVars, settingsFrame>>

\* saveCloudinaryApiCredentials has returned or raised.
SaveSecretReturned ==
    /\ st.pc = "saveSecret"
    /\ cred[st.call].pc = "done"
    /\ st' = IF cred[st.call].status = "raised" THEN SaveFailed(st)
             ELSE SaveSucceeded(st)
    /\ UNCHANGED <<storeVars, settingsFrame, cred>>

\* Clear is pressed, which the button allows whenever hasCredentials is true:
\* handleClear shows its alert and returns.
HandleClear ==
    /\ st.load # "none"
    /\ st.hasCredentials
    /\ st.ops < MaxSettingsOps
    /\ st' = [st EXCEPT !.alerts = @ + 1, !.ops = @ + 1]
    /\ UNCHANGED <<storeVars, settingsFrame, cred>>

\* The alert is answered with Clear, whatever the screen shows by then: its
\* onPress calls clearCloudinaryCredentials.
ClearConfirmed ==
    /\ st.alerts > 0
    /\ cred' = Append(cred, NewCredCall("clear", Undefined, Undefined))
    /\ st' = [st EXCEPT !.alerts = @ - 1, !.clearing = @ \cup {Len(cred) + 1}]
    /\ UNCHANGED <<storeVars, settingsFrame>>

\* The alert is answered with Cancel.
ClearCancelled ==
    /\ st.alerts > 0
    /\ st' = [st EXCEPT !.alerts = @ - 1]
    /\ UNCHANGED <<storeVars, settingsFrame, cred>>

\* A clearCloudinaryCredentials call has returned: the form is reset.
ClearReturned(i) ==
    /\ i \in st.clearing
    /\ cred[i].pc = "done"
    /\ st' = [st EXCEPT !.cloudName = "", !.uploadPreset = "",
                        !.folder = "Modeling", !.apiKey = "", !.apiSecret = "",
                        !.hasCredentials = FALSE, !.toast = "cleared",
                        !.clears = @ + 1, !.clearing = @ \ {i}]
    /\ UNCHANGED <<storeVars, settingsFrame, cred>>

\* The gallery tab is opened for the first time: its effect calls
\* loadPhotos(true).
GalleryMount ==
    /\ loads[1].pc = "idle"
    /\ loads' = [loads EXCEPT ![1] = [IdleLoad EXCEPT !.pc = "creds", !.useCache = TRUE]]
    /\ st' = [st EXCEPT !.mountClears = st.clears]
    /\ UNCHANGED <<storeVars, clockVars, photos, loading, refreshing, calls, cred, up,
                   mounted, gw>>

\* The photos an earlier session cached for folder A under the credentials
\* stored at the start.
OldPhotos == <<Photo("A", "0")>>

\* The settings screen is mounted and its effect has called loadCredentials;
\* both tiers are stored and the cache holds a fresh entry.
InitSettings ==
    /\ \/ /\ secureEnv = "available"
          /\ secureStore = MapOf(SecurePair("key0", "secret0"))
          /\ asyncStorage = MapOf(StoredCredentials("A")
                                  \cup StoredEntry("A", OldPhotos, 0))
       \/ /\ secureEnv = "unavailable"
          /\ secureStore = EmptyMap
          /\ asyncStorage = MapOf(StoredCredentials("A")
                                  \cup FallbackPair("key0", "secret0")
                                  \cup StoredEntry("A", OldPhotos, 0))
    /\ secureStoreAvailable = "null"
    /\ now = 1
    /\ ticks = 0
    /\ photos = <<>>
    /\ loading = TRUE
    /\ refreshing = FALSE
    /\ loads = [l \in LoadIds |-> IdleLoad]
    /\ calls = <<>>
    /\ cred = <<>>
    /\ up = IdleUpload
    /\ st = [IdleSettings EXCEPT !.load = "creds"]
    /\ mounted = TRUE
    /\ gw = IdleSearch

NextSettings ==
    \/ LoadCredentialsGetItem
    \/ LoadCredentialsProbe
    \/ LoadCredentialsReadKey
    \/ LoadCredentialsLastRead
    \/ \E field \in FormFields : \E text \in TypedTexts(field) : OnChangeText(field, text)
    \/ HandleSave
    \/ SaveDisplayWritten
    \/ SaveDisplayFails
    \/ SaveSecretReturned
    \/ HandleClear
    \/ ClearConfirmed
    \/ ClearCancelled
    \/ \E i \in CredIds : ClearReturned(i)
    \/ \E i \in CredIds : CredCatch(i)
    \/ \E i \in CredIds : CredProbeStart(i)
    \/ \E i \in CredIds : CredProbeResolve(i)
    \/ \E i \in CredIds : CredWriteKey(i)
    \/ \E i \in CredIds : CredWriteSecret(i)
    \/ \E i \in CredIds : CredMultiSet(i)
    \/ \E i \in CredIds : CredRemoveCredentials(i)
    \/ \E i \in CredIds : CredDeleteKey(i)
    \/ \E i \in CredIds : CredDeleteSecret(i)
    \/ \E i \in CredIds : CredMultiRemove(i)
    \/ GalleryMount
    \/ LoadGetCredentials(1)
    \/ LoadProbeResolve(1)
    \/ LoadReadKey(1)
    \/ LoadGetApiCredentials(1)
    \/ LoadCacheRead(1)
    \/ LoadFetchSuccess(1)
    \/ LoadCacheWritten(1)
    \/ LoadFetchFail(1)
    \/ BgFetchSuccess(1)
    \/ BgCacheWritten(1)
    \/ BgFetchFail(1)

SpecSettings == InitSettings /\ [][NextSettings]_vars

\* The settings screen on its own, the user editing the cloud name, the key
\* and the secret.
NextForm ==
    \/ LoadCredentialsGetItem
    \/ LoadCredentialsProbe
    \/ LoadCredentialsReadKey
    \/ LoadCredentialsLastRead
    \/ \E field \in {"cloudName", "apiKey", "apiSecret"} :
          \E text \in TypedTexts(field) : OnChangeText(field, text)
    \/ HandleSave
    \/ SaveDisplayWritten
    \/ SaveDisplayFails
    \/ SaveSecretReturned
    \/ HandleClear
    \/ ClearConfirmed
    \/ ClearCancelled
    \/ \E i \in CredIds : ClearReturned(i)
    \/ \E i \in CredIds : CredCatch(i)
    \/ \E i \in CredIds : CredProbeStart(i)
    \/ \E i \in CredIds : CredProbeResolve(i)
    \/ \E i \in CredIds : CredWriteKey(i)
    \/ \E i \in CredIds : CredWriteSecret(i)
    \/ \E i \in CredIds : CredMultiSet(i)
    \/ \E i \in CredIds : CredRemoveCredentials(i)
    \/ \E i \in CredIds : CredDeleteKey(i)
    \/ \E i \in CredIds : CredDeleteSecret(i)
    \/ \E i \in CredIds : CredMultiRemove(i)

SpecForm == InitSettings /\ [][NextForm]_vars

\* The settings screen used to change the folder, saved any number of times
\* while the gallery is mounted and loads.
NextFolder ==
    \/ LoadCredentialsGetItem
    \/ LoadCredentialsProbe
    \/ LoadCredentialsReadKey
    \/ LoadCredentialsLastRead
    \/ \E text \in {"", "B"} : OnChangeText("folder", text)
    \/ HandleSave
    \/ SaveDisplayWritten
    \/ GalleryMount
    \/ LoadGetCredentials(1)
    \/ LoadProbeResolve(1)
    \/ LoadReadKey(1)
    \/ LoadGetApiCredentials(1)
    \/ LoadCacheRead(1)
    \/ LoadFetchSuccess(1)
    \/ LoadCacheWritten(1)
    \/ LoadFetchFail(1)
    \/ BgFetchSuccess(1)
    \/ BgCacheWritten(1)
    \/ BgFetchFail(1)

SpecFolder == InitSettings /\ [][NextFolder]_vars

\* C16: credential clearing destroys the cache. Once handleClear has
\* returned and before the gallery has loaded anything, no photo cache entry
\* is stored; and a gallery mounted after a clear is not served the photos
\* cached under the credentials that were cleared.
C16_ClearDestroysCache ==
    /\ (st.clears > 0 /\ loads[1].pc = "idle") => CacheKeysOf(asyncStorage) = {}
    /\ (st.mountClears > 0 /\ loads[1].exit = "hit") => loads[1].served # OldPhotos

\* C19: credential saves are fail-loud. A save function whose backend write
\* rejected never returns normally to its caller; and when one of the two
\* save functions has raised, handleSave ends with the error toast, not the
\* success toast, while the success toast is only shown after every save it
\* called returned without a failed write.
C19_SavesFailLoud ==
    [][/\ st'.displaySave # "recovered"
       /\ \A i \in DOMAIN cred' : cred'[i].op = "save" => cred'[i].status # "recovered"
       /\ (st.pc # "idle" /\ st'.pc = "idle")
          => IF st'.displaySave = "raised"
                \/ (st.call > 0 /\ cred[st.call].status = "raised")
             THEN st'.toast = "error" /\ ~st'.loading
                  /\ st'.hasCredentials = st.hasCredentials
             ELSE st'.toast = "success" /\ st'.displaySave = "ok"
                  /\ (st.call > 0 => cred[st.call].status = "ok")
       /\ (st'.toast = "success" /\ st.toast # "success")
          => (st.pc # "idle" /\ st'.pc = "idle")]_vars

C19_Witness ==
    /\ st.pc = "idle" /\ st.toast = "error"
    /\ st.displaySave = "ok"
    /\ st.call > 0
    /\ cred[st.call].op = "save" /\ cred[st.call].status = "raised"
    /\ secureEnv = "available"
    /\ StoredString(secureStore, API_KEY_KEY) = "key1"
    /\ StoredString(secureStore, API_SECRET_KEY) = "secret0"

(***************************************************************************)
(* clearPhotoCache called with every kind of folder argument, after        *)
(* cachePhotos has stored entries for several folders.                     *)
(***************************************************************************)
\* The folder strings of the calls; the empty string is one of them.
ClearFolders == {"", "A", "B"}

\* The storage holds the credentials of both tiers and no cache entry.
InitClear ==
    /\ asyncStorage \in
         {MapOf(StoredCredentials("A")),
          MapOf(StoredCredentials("A") \cup FallbackPair("key9", "secret9"))}
    /\ secureStore = EmptyMap
    /\ secureEnv = "unavailable"
    /\ secureStoreAvailable = "null"
    /\ now = 0
    /\ ticks = 0
    /\ photos = <<>>
    /\ loading = TRUE
    /\ refreshing = FALSE
    /\ loads = [l \in LoadIds |-> IdleLoad]
    /\ calls = <<>>
    /\ cred = <<>>
    /\ up = IdleUpload
    /\ st = IdleSettings
    /\ mounted = TRUE
    /\ gw = IdleSearch

NextClear ==
    \/ \E f \in ClearFolders : CachePutCalled(f, <<Photo(f, "1")>>)
    \/ \E f \in ClearFolders : CachePut(f, <<Photo(f, "1")>>)
    \/ \E f \in {"", Undefined} : CacheClearGetAllKeys(f)
    \/ \E f \in ClearFolders \cup {Undefined} : CacheClear(f)

SpecClear == InitClear /\ [][NextClear]_vars

\* C20: cache clear scope. A clear called with a folder string removes the
\* entry of that folder and changes no other key; a clear called without a
\* folder removes every key of the cache namespace and changes no other key.
\* The calls looked at are those between whose call and return no entry was
\* stored or removed.
C20_ClearScope ==
    [][(/\ Len(calls') = Len(calls) + 1
        /\ calls'[Len(calls')].op = "clear"
        /\ \/ TruthyString(calls'[Len(calls')].folder)
           \/ calls'[Len(calls')].keys = CacheKeysOf(asyncStorage))
       => LET f == calls'[Len(calls')].folder
          IN  IF f # Undefined
              THEN asyncStorage' = MultiRemove(asyncStorage, {CacheKey(f)})
              ELSE asyncStorage' = MultiRemove(asyncStorage, CacheKeysOf(asyncStorage))]_vars

(***************************************************************************)
(* The fail-safe functions of storage.ts and photoCache.ts, one call after *)
(* the other, over backends whose calls may reject and whose stored texts  *)
(* may not parse.                                                          *)
(***************************************************************************)
MaxStoreCalls == 2

\* A call record: the fields of a credential call and the arguments of the
\* cache functions; pc is the first backend call of the function, and
\* cachePhotos takes its timestamp when it is called.
NewStoreCall(op, folder, ps) ==
    [op |-> op,
     pc |-> IF op = "get" THEN "probe"
            ELSE IF op = "clear" THEN "removeCredentials"
            ELSE IF op = "getDisplay" THEN "getItem"
            ELSE IF op = "cacheGet" THEN "cacheGetItem"
            ELSE IF op = "cachePut" THEN "cacheSetItem"
            ELSE IF TruthyString(folder) THEN "cacheRemoveItem" ELSE "cacheGetAllKeys",
     apiKey |-> Undefined,
     apiSecret |-> Undefined, use |-> "null", probed |-> FALSE,
     status |-> "pending", result |-> Null, folder |-> folder, photos |-> ps,
     ts |-> now, keys |-> {}]

StoreCall(op, folder, ps) ==
    /\ Len(cred) < MaxStoreCalls
    /\ \A i \in DOMAIN cred : cred[i].pc = "done"
    /\ cred' = Append(cred, NewStoreCall(op, folder, ps))
    /\ UNCHANGED <<storeVars, credFrame>>

\* getCloudinaryCredentials: AsyncStorage.getItem resolves; JSON.parse throws
\* on a text that is not JSON.
DisplayGetItem(i) ==
    /\ i \in DOMAIN cred
    /\ cred[i].pc = "getItem"
    /\ LET data == GetItem(asyncStorage, CLOUDINARY_CREDENTIALS_KEY)
       IN  cred' = [cred EXCEPT ![i] =
               IF TruthyText(data) /\ ~JSONParses(data) THEN Caught(cred[i])
               ELSE [@ EXCEPT !.pc = "done", !.status = "ok",
                              !.result = GetCloudinaryCredentials(asyncStorage)]]
    /\ UNCHANGED <<storeVars, credFrame>>

\* getCachedPhotos: AsyncStorage.getItem resolves; JSON.parse throws on a text
\* that is not JSON.
CacheGetItem(i) ==
    /\ i \in DOMAIN cred
    /\ cred[i].pc = "cacheGetItem"
    /\ LET cached == GetItem(asyncStorage, CacheKey(cred[i].folder))
       IN  cred' = [cred EXCEPT ![i] =
               IF TruthyText(cached) /\ ~JSONParses(cached) THEN Caught(cred[i])
               ELSE [@ EXCEPT !.pc = "done", !.status = "ok",
                              !.result = GetCachedPhotos(asyncStorage, cred[i].folder,
                                                         now)]]
    /\ UNCHANGED <<storeVars, credFrame>>

\* cachePhotos: AsyncStorage.setItem resolves.
CacheSetItem(i) ==
    /\ i \in DOMAIN cred
    /\ cred[i].pc = "cacheSetItem"
    /\ asyncStorage' = CachePhotos(asyncStorage, cred[i].photos, cred[i].folder,
                                   cred[i].ts)
    /\ cred' = [cred EXCEPT ![i] = [@ EXCEPT !.pc = "done", !.status = "ok"]]
    /\ UNCHANGED <<secureStore, secureStoreAvailable, secureEnv, credFrame>>

\* clearPhotoCache(folder): AsyncStorage.removeItem resolves.
CacheRemoveItem(i) ==
    /\ i \in DOMAIN cred
    /\ cred[i].pc = "cacheRemoveItem"
    /\ asyncStorage' = MultiRemove(asyncStorage, {CacheKey(cred[i].folder)})
    /\ cred' = [cred EXCEPT ![i] = [@ EXCEPT !.pc = "done", !.status = "ok"]]
    /\ UNCHANGED <<secureStore, secureStoreAvailable, secureEnv, credFrame>>

\* clearPhotoCache(): AsyncStorage.getAllKeys resolves and the keys are filtered.
CacheGetAllKeys(i) ==
    /\ i \in DOMAIN cred
    /\ cred[i].pc = "cacheGetAllKeys"
    /\ cred' = [cred EXCEPT ![i] =
           [@ EXCEPT !.pc = "cacheMultiRemove", !.keys = CacheKeysOf(asyncStorage)]]
    /\ UNCHANGED <<storeVars, credFrame>>

\* clearPhotoCache(): AsyncStorage.multiRemove resolves.
CacheMultiRemove(i) ==
    /\ i \in DOMAIN cred
    /\ cred[i].pc = "cacheMultiRemove"
    /\ asyncStorage' = MultiRemove(asyncStorage, cred[i].keys)
    /\ cred' = [cred EXCEPT ![i] = [@ EXCEPT !.pc = "done", !.status = "ok"]]
    /\ UNCHANGED <<secureStore, secureStoreAvailable, secureEnv, credFrame>>

\* A stored text that is not JSON.
Unparsable == Str("{oops")

\* The platform, and a storage that holds either what the program wrote or
\* texts that do not parse.
InitFailSafe ==
    /\ \E s \in InitSecret :
          /\ secureEnv = s.env
          /\ secureStore = MapOf(s.secure)
          /\ asyncStorage \in
               {MapOf(StoredCredentials("A") \cup s.fallback
                      \cup StoredEntry("A", <<Photo("A", "0")>>, 0)),
                MapOf({<<CLOUDINARY_CREDENTIALS_KEY, Unparsable>>,
                       <<CacheKey("A"), Unparsable>>} \cup s.fallback)}
    /\ secureStoreAvailable = "null"
    /\ now = 1
    /\ ticks = 0
    /\ photos = <<>>
    /\ loading = TRUE
    /\ refreshing = FALSE
    /\ loads = [l \in LoadIds |-> IdleLoad]
    /\ calls = <<>>
    /\ cred = <<>>
    /\ up = IdleUpload
    /\ st = IdleSettings
    /\ mounted = TRUE
    /\ gw = IdleSearch

NextFailSafe ==
    \/ \E op \in {"get", "clear", "getDisplay"} : StoreCall(op, Undefined, <<>>)
    \/ StoreCall("cacheGet", "A", <<>>)
    \/ StoreCall("cachePut", "A", <<Photo("A", "1")>>)
    \/ \E f \in {"A", Undefined} : StoreCall("cacheClear", f, <<>>)
    \/ \E i \in CredIds : CredCatch(i)
    \/ \E i \in CredIds : DisplayGetItem(i)
    \/ \E i \in CredIds : CacheGetItem(i)
    \/ \E i \in CredIds : CacheSetItem(i)
    \/ \E i \in CredIds : CacheRemoveItem(i)
    \/ \E i \in CredIds : CacheGetAllKeys(i)
    \/ \E i \in CredIds : CacheMultiRemove(i)
    \/ \E i \in CredIds : CredProbeStart(i)
    \/ \E i \in CredIds : CredProbeResolve(i)
    \/ \E i \in CredIds : CredReadKey(i)
    \/ \E i \in CredIds : CredReadSecret(i)
    \/ \E i \in CredIds : CredMultiGet(i)
    \/ \E i \in CredIds : CredRemoveCredentials(i)
    \/ \E i \in CredIds : CredDeleteKey(i)
    \/ \E i \in CredIds : CredDeleteSecret(i)
    \/ \E i \in CredIds : CredMultiRemove(i)

SpecFailSafe == InitFailSafe /\ [][NextFailSafe]_vars

\* C18: the fail-safe functions never raise. No call of getCloudinaryCredentials,
\* getCloudinaryApiCredentials, getCachedPhotos, cachePhotos, clearPhotoCache
\* or clearCloudinaryCredentials raises to its caller; a call that has ended
\* has returned, and a read that ended in its catch block returned absent.
C18_FailSafeNeverRaise ==
    \A i \in DOMAIN cred :
        /\ cred[i].status # "raised"
        /\ cred[i].pc = "done" => cred[i].status \in {"ok", "recovered"}
        /\ (cred[i].pc = "done" /\ cred[i].status = "recovered"
              /\ cred[i].op \in {"get", "getDisplay", "cacheGet"})
           => cred[i].result = Absent(cred[i].op)

C18_Witness ==
    /\ Len(cred) = 2
    /\ GetItem(asyncStorage, CacheKey("A")) = Unparsable
    /\ cred[1].op = "cacheGet" /\ cred[1].pc = "done"
    /\ cred[1].status = "recovered" /\ cred[1].result = NoPhotos
    /\ cred[2].op = "clear" /\ cred[2].pc = "done" /\ cred[2].status = "recovered"
    /\ CLOUDINARY_CREDENTIALS_KEY \in DOMAIN asyncStorage

(***************************************************************************)
(* The gallery under overlapping triggers: the screen is mounted with both *)
(* credential tiers stored, refreshed several times from the list or from  *)
(* the empty state, and may be unmounted while requests are outstanding.   *)
(***************************************************************************)
MaxOverlapLoads == 3

OverlapIds == 1..MaxOverlapLoads

\* PhotosScreen leaves the tree. Its effect returns no cleanup and loadPhotos
\* keeps no "still mounted" flag: nothing of the loads in progress changes.
Unmount ==
    /\ mounted
    /\ mounted' = FALSE
    /\ UNCHANGED <<storeVars, clockVars, screenVars, calls, cred, up, st, gw>>

\* The screen is mounted and its effect has called loadPhotos(true); the cache
\* is empty or holds a fresh entry of the configured folder.
InitOverlap ==
    /\ \E c \in {{}, StoredEntry("A", OldPhotos, 0)} :
          asyncStorage = MapOf(StoredCredentials("A") \cup c)
    /\ secureStore = MapOf(SecurePair("key0", "secret0"))
    /\ secureEnv = "available"
    /\ secureStoreAvailable = "null"
    /\ now = 1
    /\ ticks = 0
    /\ photos = <<>>
    /\ loading = TRUE
    /\ refreshing = FALSE
    /\ loads = [l \in OverlapIds |->
                  IF l = 1 THEN [IdleLoad EXCEPT !.pc = "creds", !.useCache = TRUE]
                  ELSE IdleLoad]
    /\ calls = <<>>
    /\ cred = <<>>
    /\ up = IdleUpload
    /\ st = IdleSettings
    /\ mounted = TRUE
    /\ gw = IdleSearch

NextOverlap ==
    \/ \E l \in OverlapIds : LoadGetCredentials(l)
    \/ \E l \in OverlapIds : LoadProbeResolve(l)
    \/ \E l \in OverlapIds : LoadReadKey(l)
    \/ \E l \in OverlapIds : LoadGetApiCredentials(l)
    \/ \E l \in OverlapIds : LoadCacheRead(l)
    \/ \E l \in OverlapIds : LoadFetchSuccess(l)
    \/ \E l \in OverlapIds : LoadCacheWritten(l)
    \/ \E l \in OverlapIds : LoadFetchFail(l)
    \/ \E l \in OverlapIds : BgFetchSuccess(l)
    \/ \E l \in OverlapIds : BgCacheWritten(l)
    \/ \E l \in OverlapIds : BgFetchFail(l)
    \/ \E l \in OverlapIds : OnRefresh(l)
    \/ \E l \in OverlapIds : ClearGetAllKeys(l)
    \/ \E l \in OverlapIds : ClearMultiRemove(l)
    \/ Unmount

SpecOverlap == InitOverlap /\ [][NextOverlap]_vars

\* The loads whose foreground request is outstanding.
ForegroundInFlight == {l \in DOMAIN loads : loads[l].pc = "fetching"}

\* C22: single foreground fetch. Under every sequence of triggers the screen
\* offers (the load on mount, pull-to-refresh, the Refresh button of the empty
\* state), at most one foreground request of the screen is outstanding.
C22_SingleForegroundFetch == Cardinality(ForegroundInFlight) <= 1

\* No loadPhotos, request, cache write or cache clear is outstanding.
AtRest ==
    \A l \in DOMAIN loads : /\ loads[l].pc \in {"idle", "done"}
                            /\ loads[l].clearPc \in {"none", "done"}

\* The loads whose request has returned a photo list.
Returned ==
    {l \in DOMAIN loads : \/ loads[l].bg = "ok"
                          \/ loads[l].pc = "caching"
                          \/ loads[l].exit = "loaded"}

\* The entry cachePhotos writes for the response of load l.
EntryOf(l) ==
    StringifyCachedPhotos([photos |-> loads[l].fetched, timestamp |-> loads[l].ts,
                           folder |-> loads[l].folder])

\* C23: last write wins. When executions of loadPhotos have overlapped, every
\* request has returned a photo list, and every cache write and cache clear has
\* completed, the list shown is the list of a response that returned (every
\* response overwrites the list, so it is the one that returned last) and the
\* cache entry of the folder holds that same response.
C23_LastWriteWins ==
    (/\ AtRest
     /\ \E l \in DOMAIN loads : loads[l].overlap
     /\ \A l \in DOMAIN loads : loads[l].pc = "done" => l \in Returned)
    => \E l \in Returned :
          /\ photos = loads[l].fetched
          /\ GetItem(asyncStorage, CacheKey(loads[l].folder)) = EntryOf(l)

\* C24: unmount guard. Once PhotosScreen has been unmounted while a foreground
\* or background request is outstanding, the step in which that request
\* completes changes neither the photo list nor the loading flag nor the
\* refreshing flag of the screen.
C24_UnmountGuard ==
    [][(/\ ~mounted
        /\ \E l \in DOMAIN loads : /\ loads[l].pc \in {"fetching", "bgFetching"}
                                   /\ loads'[l].pc # loads[l].pc)
       => UNCHANGED <<photos, loading, refreshing>>]_vars

(***************************************************************************)
(* The folder search of the gateway, for every combination of what the     *)
(* three expressions may answer.                                           *)
(***************************************************************************)
\* getPhotosFromFolder has been called; responses[i] is what execute() does
\* for the i-th expression if the loop reaches it.
InitSearch ==
    /\ \E f \in {"Modeling"} :
          \E r1 \in SearchResponses(f, Expressions(f)[1]),
             r2 \in SearchResponses(f, Expressions(f)[2]),
             r3 \in SearchResponses(f, Expressions(f)[3]) :
             gw = [IdleSearch EXCEPT !.pc = "searching", !.folderName = f,
                                     !.responses = <<r1, r2, r3>>]
    /\ asyncStorage = EmptyMap
    /\ secureStore = EmptyMap
    /\ secureEnv = "available"
    /\ secureStoreAvailable = "null"
    /\ now = 0
    /\ ticks = 0
    /\ photos = <<>>
    /\ loading = TRUE
    /\ refreshing = FALSE
    /\ loads = [l \in LoadIds |-> IdleLoad]
    /\ calls = <<>>
    /\ cred = <<>>
    /\ up = IdleUpload
    /\ st = IdleSettings
    /\ mounted = TRUE

NextSearch ==
    \/ SearchExecute
    \/ \E listing \in {"listed", "failed"} : SearchListAll(listing)
    \/ \E k \in ResourceIds, directResource \in DirectResources :
          SearchResourceResolves(k, directResource)
    \/ \E k \in ResourceIds : SearchResourceRejects(k)

SpecSearch == InitSearch /\ [][NextSearch]_vars

\* The expressions that answer with at least one resource, and those that fail.
WithPhotos == {i \in DOMAIN gw.responses : /\ gw.responses[i].t = "result"
                                           /\ gw.responses[i].hasResources
                                           /\ gw.responses[i].resources # <<>>}
Failing == {i \in DOMAIN gw.responses : gw.responses[i].t = "throws"}

\* The first expression that answers with resources, 0 if none does.
FirstWithPhotos ==
    IF WithPhotos = {} THEN 0 ELSE CHOOSE i \in WithPhotos : \A j \in WithPhotos : i <= j

\* C25: folder search fallback. The expressions are tried in their fixed order
\* up to the first one that answers with resources and no further; when that
\* one exists the call does not throw and, whatever failed before it and
\* whatever the metadata lookups of its resources answer, returns one photo
\* for each of its resources, in their order; when none exists the call
\* returns the empty list if no expression failed and throws (the error of
\* the last failing expression) if at least one failed.
C25_SearchFallback ==
    LET es == Expressions(gw.folderName)
    IN  /\ gw.tried = SubSeq(es, 1, Len(gw.tried))
        /\ FirstWithPhotos # 0 => Len(gw.tried) <= FirstWithPhotos
        /\ gw.pc = "mapping" => Len(gw.tried) = FirstWithPhotos
        /\ gw.pc = "done"
           => /\ Len(gw.tried) = IF FirstWithPhotos = 0 THEN Len(es) ELSE FirstWithPhotos
              /\ FirstWithPhotos # 0
                 => /\ gw.out.t = "returned"
                    /\ [k \in DOMAIN gw.out.photos |->
                          <<gw.out.photos[k].public_id, gw.out.photos[k].url>>]
                       = [k \in DOMAIN gw.responses[FirstWithPhotos].resources |->
                            <<gw.responses[FirstWithPhotos].resources[k].public_id,
                              gw.responses[FirstWithPhotos].resources[k].secure_url>>]
              /\ (FirstWithPhotos = 0 /\ Failing = {})
                 => (gw.out.t = "returned" /\ gw.out.photos = <<>>)
              /\ gw.out.t = "threw" <=> (FirstWithPhotos = 0 /\ Failing # {})
              /\ gw.out.t = "threw"
                 => gw.out.error =
                       gw.responses[CHOOSE i \in Failing : \A j \in Failing : j <= i].error

\* The first expression fails, the second answers with two resources whose
\* metadata lookups both reject: their photos are returned and the third
\* expression is not tried.
C25_Witness ==
    /\ gw.pc = "done"
    /\ gw.responses[1].t = "throws"
    /\ FirstWithPhotos = 2
    /\ Len(gw.tried) = 2
    /\ gw.out.t = "returned" /\ Len(gw.out.photos) = 2
    /\ \A k \in DOMAIN gw.maps : gw.maps[k].lookup = "rejected"
    /\ \A k \in DOMAIN gw.out.photos :
          gw.out.photos[k].description = Text(Units("Professional modeling photoshoot"))

\* C27: cache/list agreement at rest. When no load, request, cache write or
\* cache clear is outstanding, no two loads have overlapped and every request
\* issued has returned a photo list, the cache entry of the configured folder
\* exists and its photos are the list shown; in particular the cache clear of a
\* refresh never removes the entry written for the refresh's own response.
C27_AgreementAtRest ==
    (/\ AtRest
     /\ Returned # {}
     /\ \A l \in DOMAIN loads : /\ ~loads[l].overlap
                                /\ loads[l].pc = "done" => l \in Returned)
    => LET f == ResolveFolder(GetCloudinaryCredentials(asyncStorage))
           e == GetItem(asyncStorage, CacheKey(f))
       IN  /\ e # Null
           /\ e = StringifyCachedPhotos([photos |-> photos,
                                         timestamp |-> JSONParse(e).timestamp,
                                         folder |-> f])

(***************************************************************************)
(* The gallery of Spec again: the requests a load issues.                  *)
(***************************************************************************)
\* C26: exactly one fetch per load. A load that passes both gates issues one
\* request and no more: the background one in the step whose cache lookup
\* returns an entry (a hit), the foreground one in the step whose lookup
\* returns none or, with useCache false, right after the gates; a load with
\* useCache false never reaches the cache lookup, and a background request is
\* issued only by a lookup that hit.
C26_OneFetchPerLoad ==
    [][\A l \in DOMAIN loads :
         LET hit == GetCachedPhotos(asyncStorage, loads[l].folder, now).hit
             looked == loads[l].pc = "cacheRead" /\ loads'[l].pc # "cacheRead"
             gated == loads[l].pc = "apiCreds" /\ loads'[l].pc # "apiCreds"
         IN  /\ loads'[l].netCalls <= 1
             /\ loads'[l].pc = "cacheRead" => loads'[l].useCache
             /\ looked => /\ loads'[l].netCalls = 1
                          /\ hit <=> loads'[l].pc = "bgFetching"
                          /\ ~hit <=> loads'[l].pc = "fetching"
             /\ (gated /\ loads'[l].exit = "none")
                => IF loads[l].useCache
                   THEN loads'[l].pc = "cacheRead" /\ loads'[l].netCalls = 0
                   ELSE loads'[l].pc = "fetching" /\ loads'[l].netCalls = 1
             /\ (loads'[l].pc = "bgFetching" /\ loads[l].pc # "bgFetching")
                => (looked /\ hit)]_vars

(***************************************************************************)
(* The gallery under fair scheduling: every continuation of loadPhotos runs *)
(* once the storage call or the request it awaits has settled, and every    *)
(* request settles. Nothing obliges the user to refresh.                    *)
(***************************************************************************)
InitLive ==
    /\ \E d \in {{}, StoredCredentials("A")},
          s \in {{}, SecurePair("key1", "secret1")},
          c \in {{}, StoredEntry("A", OldPhotos, 0)} :
          /\ asyncStorage = MapOf(d \cup c)
          /\ secureStore = MapOf(s)
    /\ secureEnv = "available"
    /\ secureStoreAvailable = "null"
    /\ now = 1
    /\ ticks = 0
    /\ photos = <<>>
    /\ loading = TRUE
    /\ refreshing = FALSE
    /\ loads = [l \in LoadIds |->
                  IF l = 1 THEN [IdleLoad EXCEPT !.pc = "creds", !.useCache = TRUE]
                  ELSE IdleLoad]
    /\ calls = <<>>
    /\ cred = <<>>
    /\ up = IdleUpload
    /\ st = IdleSettings
    /\ mounted = TRUE
    /\ gw = IdleSearch

\* The continuations of one loadPhotos call.
LoadStep(l) ==
    \/ LoadGetCredentials(l)
    \/ LoadProbeResolve(l)
    \/ LoadReadKey(l)
    \/ LoadGetApiCredentials(l)
    \/ LoadCacheRead(l)
    \/ LoadFetchSuccess(l)
    \/ LoadCacheWritten(l)
    \/ LoadFetchFail(l)
    \/ BgFetchSuccess(l)
    \/ BgCacheWritten(l)
    \/ BgFetchFail(l)

NextLive ==
    \/ \E l \in LoadIds : LoadStep(l)
    \/ \E l \in LoadIds : OnRefresh(l)
    \/ \E l \in LoadIds : ClearGetAllKeys(l)
    \/ \E l \in LoadIds : ClearMultiRemove(l)

SpecLive ==
    InitLive /\ [][NextLive]_vars /\ \A l \in LoadIds : WF_vars(LoadStep(l))

\* loadPhotos call l has started and has not yet returned to its caller.
Running(l) == loads[l].pc \in {"creds", "apiCreds", "cacheRead", "fetching", "caching"}

\* C28: loading flags always clear. Every loadPhotos call, started on mount
\* or by a refresh, returns, and when it has returned loading and refreshing are
\* both false, whichever way it ended; on the cache-hit path they are false in
\* the step that issues the background request, and no step of the background
\* request or of its cache write changes them.
C28_FlagsClear ==
    /\ \A l \in LoadIds : Running(l) ~> (~Running(l) /\ ~loading /\ ~refreshing)
    /\ [][\A l \in LoadIds :
            /\ (Running(l) /\ ~Running(l)') => (~loading' /\ ~refreshing')
            /\ (loads[l].pc \in {"bgFetching", "bgCaching"}
                /\ loads'[l].pc # loads[l].pc)
               => UNCHANGED <<loading, refreshing>>]_vars

\* A refresh started while the background request of the mount was
\* outstanding has failed, the background request has returned, and both
\* flags are false.
C28_Witness ==
    /\ loads[1].exit = "hit" /\ loads[1].bg = "ok"
    /\ loads[2].overlap /\ loads[2].pc = "done" /\ loads[2].exit = "failed"
    /\ ~loading /\ ~refreshing

\* The ways a load ends without a photo list.
GateOrFailure == {"gateDisplay", "gateSecret", "failed"}

\* C29: failure and gate leave data untouched. The step in which a load ends
\* in a credential gate or in a foreground failure changes neither the list
\* shown nor the storage (no cache entry is written, changed or removed), and
\* neither does any earlier step of that load (reading the credentials, a cache
\* lookup that misses, issuing the request); once ended the load does nothing
\* more and has no response to cache.
C29_GateAndFailureLeaveData ==
    [][\A l \in LoadIds :
         LET moved == loads'[l].pc # loads[l].pc
         IN  /\ (loads'[l].exit \in GateOrFailure /\ loads[l].exit \notin GateOrFailure)
                => /\ UNCHANGED <<photos, asyncStorage, secureStore>>
                   /\ loads'[l].pc = "done"
             /\ (moved /\ loads[l].pc \in {"creds", "apiCreds"})
                => UNCHANGED <<photos, asyncStorage, secureStore>>
             /\ (moved /\ loads[l].pc = "cacheRead" /\ loads'[l].pc = "fetching")
                => UNCHANGED <<photos, asyncStorage, secureStore>>
             /\ loads[l].exit \in GateOrFailure
                => /\ loads'[l].pc = "done"
                   /\ loads'[l].exit = loads[l].exit
                   /\ loads'[l].fetched = <<>>]_vars

\* The mount served the cached photos; a refresh has failed before its cache
\* clear ran: the photos are still shown and the entry is still stored.
C29_Witness ==
    /\ loads[1].exit = "hit"
    /\ loads[2].pc = "done" /\ loads[2].exit = "failed"
    /\ loads[2].clearPc = "getAllKeys"
    /\ photos = OldPhotos
    /\ GetItem(asyncStorage, CacheKey("A")) # Null

(***************************************************************************)
(* The settings screen and the gallery again: the folder is changed while  *)
(* a request of the gallery is outstanding.                                *)
(***************************************************************************)
\* The photo lists a request naming the folder may have returned, now or in
\* the session that left the entries of the initial state, as cachePhotos
\* stores them.
StoredListsOf(folder) ==
    {[k \in DOMAIN ps |-> StringifyObject(ps[k])] :
        ps \in ServerResults(folder) \cup {<<Photo(folder, "0")>>}}

\* C30: cache entry provenance. In every reachable state every stored cache
\* entry sits under the key of its own folder field and holds a photo list
\* returned for a request that named that folder, also when handleSave stores
\* another folder while the request is outstanding.
C30_EntryProvenance ==
    \A k \in CacheKeysOf(asyncStorage) :
        /\ JSONParses(asyncStorage[k])
        /\ k = CacheKey(JSONParse(asyncStorage[k]).folder)
        /\ JSONParse(asyncStorage[k]).photos
              \in StoredListsOf(JSONParse(asyncStorage[k]).folder)

\* The gallery read folder A, the settings screen has since stored a
\* configuration without folder (the default folder applies), and the response
\* of the gallery's request has been cached under the key of A.
C30_Witness ==
    /\ loads[1].folder = "A" /\ loads[1].bg = "ok" /\ loads[1].pc = "done"
    /\ loads[1].fetched # OldPhotos
    /\ ResolveFolder(GetCloudinaryCredentials(asyncStorage)) = DEFAULT_FOLDER
    /\ GetItem(asyncStorage, CacheKey("A")) = EntryOf(1)
    /\ CacheKey(DEFAULT_FOLDER) \notin DOMAIN asyncStorage

====
